---- MODULE Spec2Model ----
(***************************************************************************)
(* Model of the antsol indexer (antsol-indexer-v2): the durable store      *)
(* (db/queries.rs), the shared ingestion helper and the scan loop          *)
(* (indexer/listener.rs), the event parser's dispatch (indexer/parser.rs)  *)
(* and the manual ingestion endpoint (api/handlers.rs).                    *)
(*                                                                         *)
(* Timestamps (created_at, updated_at, block_time, published_at) are not   *)
(* part of the state: no modelled decision reads them.                     *)
(***************************************************************************)
EXTENDS Integers, Sequences, FiniteSets, TLC

(***************************************************************************)
(* Bounds of the model.                                                    *)
(***************************************************************************)
\* The ledger tip when the model starts, and the highest tip it reaches.
StartTip == 9
MaxSlot == 11
\* Events of the environment in one behaviour: kills of the process, calls of
\* the manual ingestion endpoint, and injected failures (RPC errors of the
\* ledger client, storage errors of store calls).
MaxEvents == 2
\* Failed tip fetches and failed diagnostic writes in one behaviour of the
\* polling loop taken alone.
MaxFailures == 12
\* Downloaded events each caller ingests in a behaviour of the statement-level
\* view.
PerWorker == 2

(***************************************************************************)
(* Program constants.                                                      *)
(***************************************************************************)
\* listener.rs:204  `slot % 10 == 0`
PersistEvery == 10
\* listener.rs:181  `let max_retries = 5`
max_retries == 5
\* listener.rs:182  `Duration::from_secs(2)`
BaseBackoff == 2
\* listener.rs:236  `Duration::from_secs(300)`
MaxBackoff == 300
\* listener.rs:241  `sleep(Duration::from_secs(5))`
ShortDelay == 5
\* handlers.rs:164  `req.slot.unwrap_or(0)`
ManualSlot == 0

\* Option::None, for every optional string of the program.
None == "<none>"
\* handlers.rs:163  `unwrap_or_else(|| "manual_sig".to_string())`
ManualSig == "manual_sig"

(***************************************************************************)
(* Log lines.  A line is represented by what the parser's scans find in    *)
(* it: the event markers its lower-cased text contains, the value of its   *)
(* generic event field, the (name, version) extract_package_info recovers, *)
(* the content address extract_ipfs_hash recovers, and whether it contains *)
(* the program identifier.                                                 *)
(***************************************************************************)
Line(markers, ev, name, version, ipfs, program) ==
    [markers |-> markers, event |-> ev, name |-> name, version |-> version,
     ipfs |-> ipfs, program |-> program]

CidA == "QmAAAAAAAAAAAAAAAAAAAAAAAAAAAAAAAAAAAAAAAAAAAA"
CidB == "QmBBBBBBBBBBBBBBBBBBBBBBBBBBBBBBBBBBBBBBBBBBBB"

\* "Program <id> invoke [1]"
InvokeLine == Line({}, None, None, None, None, TRUE)
\* "Program log: PackagePublished package=<n> version=<v> ipfs=<cid>"
PublishLine(n, v, cid) == Line({"publish"}, None, n, v, cid, FALSE)
\* "Program log: PackageUpdated package=<n> version=<v> ipfs=<cid>"
UpdateLine(n, v, cid) == Line({"update"}, None, n, v, cid, FALSE)
\* "Program log: PackageDownloaded package=<n> version=<v>"
DownloadLine(n, v) == Line({"download"}, None, n, v, None, FALSE)
\* "Program log: event=<e> package=<n>"
GenericLine(e, n) == Line({}, e, n, None, None, FALSE)
\* "Program log: Some random log message"
RandomLine == Line({}, None, None, None, None, FALSE)

(***************************************************************************)
(* parser.rs                                                               *)
(***************************************************************************)
NoEvent == [event_type |-> None, package_name |-> None, version |-> None,
            transaction_signature |-> None, slot |-> 0]

\* extract_package_info: None when no name is recovered.
extract_package_info(log) ==
    IF log.name = None THEN [found |-> FALSE, name |-> None, version |-> None]
    ELSE [found |-> TRUE, name |-> log.name, version |-> log.version]

MkEvent(type, info, signature, slot) ==
    [event_type |-> type, package_name |-> info.name, version |-> info.version,
     transaction_signature |-> signature, slot |-> slot]

\* parse_transaction making an event of every line that has a name.
parse_transaction_any_name(log, signature, slot) ==
    LET info == extract_package_info(log) IN
    IF info.found THEN MkEvent("PackagePublished", info, signature, slot) ELSE NoEvent

\* parse_transaction: the markers in priority order, each needing a name.
parse_transaction(log, signature, slot) ==
    LET info == extract_package_info(log) IN
    IF "publish" \in log.markers /\ info.found
      THEN MkEvent("PackagePublished", info, signature, slot)
    ELSE IF "update" \in log.markers /\ info.found
      THEN MkEvent("PackageUpdated", info, signature, slot)
    ELSE IF "download" \in log.markers /\ info.found
      THEN MkEvent("PackageDownloaded", info, signature, slot)
    ELSE IF log.event # None /\ info.found
      THEN MkEvent(log.event, info, signature, slot)
    ELSE NoEvent

IsSome(event) == event.event_type # None

\* listener.rs extract_ipfs_hash
extract_ipfs_hash(log) == log.ipfs

(***************************************************************************)
(* db/queries.rs.  d is the store: [events, packages, versions, state].    *)
(* Row ids are the row's index in its table (rows are never deleted).      *)
(* `fail` says that the call ends in a storage error before its statement  *)
(* takes effect (pool.get() or the statement fails).                       *)
(***************************************************************************)
\* The least element of a set of row ids, 0 for the empty set (no row).
FirstId(S) == IF S = {} THEN 0 ELSE CHOOSE i \in S : \A j \in S : i <= j

PackageIndex(packages, name) ==
    FirstId({i \in 1..Len(packages) : packages[i].name = name})

VersionIndex(versions, package_id, version) ==
    FirstId({i \in 1..Len(versions) :
               versions[i].package_id = package_id /\ versions[i].version = version})

EventIndex(events, signature) ==
    FirstId({i \in 1..Len(events) : events[i].transaction_signature = signature})

\* INSERT ... ON CONFLICT (name) DO UPDATE SET author = ... RETURNING id
insert_package(d, name, author, fail) ==
    IF fail THEN [db |-> d, ok |-> FALSE, id |-> 0]
    ELSE LET i == PackageIndex(d.packages, name) IN
         IF i = 0
           THEN [db |-> [d EXCEPT !.packages = Append(@,
                          [name |-> name, author |-> author, total_downloads |-> 0])],
                 ok |-> TRUE, id |-> Len(d.packages) + 1]
           ELSE [db |-> [d EXCEPT !.packages[i].author = author],
                 ok |-> TRUE, id |-> i]

\* insert_version as a plain INSERT: a row is appended every time.
insert_version_append(d, package_id, version, ipfs_hash, fail) ==
    IF fail THEN [db |-> d, ok |-> FALSE, id |-> 0]
    ELSE [db |-> [d EXCEPT !.versions = Append(@,
                   [package_id |-> package_id, version |-> version,
                    ipfs_hash |-> ipfs_hash, downloads |-> 0])],
          ok |-> TRUE, id |-> Len(d.versions) + 1]

\* INSERT ... ON CONFLICT (package_id, version) DO UPDATE SET ipfs_hash = ...
insert_version(d, package_id, version, ipfs_hash, fail) ==
    IF fail THEN [db |-> d, ok |-> FALSE, id |-> 0]
    ELSE LET i == VersionIndex(d.versions, package_id, version) IN
         IF i = 0
           THEN [db |-> [d EXCEPT !.versions = Append(@,
                          [package_id |-> package_id, version |-> version,
                           ipfs_hash |-> ipfs_hash, downloads |-> 0])],
                 ok |-> TRUE, id |-> Len(d.versions) + 1]
           ELSE [db |-> [d EXCEPT !.versions[i].ipfs_hash = ipfs_hash],
                 ok |-> TRUE, id |-> i]

\* insert_event as a plain INSERT, without the ON CONFLICT clause.
insert_event_no_conflict(d, event, fail) ==
    IF fail THEN [db |-> d, ok |-> FALSE, id |-> 0]
    ELSE [db |-> [d EXCEPT !.events = Append(@, event)],
          ok |-> TRUE, id |-> Len(d.events) + 1]

\* INSERT ... ON CONFLICT (transaction_signature) DO NOTHING RETURNING id;
\* a conflict returns no row and the function answers Ok(0).
insert_event(d, event, fail) ==
    IF fail THEN [db |-> d, ok |-> FALSE, id |-> 0]
    ELSE IF EventIndex(d.events, event.transaction_signature) # 0
      THEN [db |-> d, ok |-> TRUE, id |-> 0]
    ELSE [db |-> [d EXCEPT !.events = Append(@, event)],
          ok |-> TRUE, id |-> Len(d.events) + 1]

\* SELECT id FROM packages WHERE name = $1
get_package_id(d, name, fail) ==
    IF fail THEN [ok |-> FALSE, id |-> 0]
    ELSE [ok |-> TRUE, id |-> PackageIndex(d.packages, name)]

\* SELECT id FROM versions WHERE package_id = $1 AND version = $2
get_version_id(d, package_id, version, fail) ==
    IF fail THEN [ok |-> FALSE, id |-> 0]
    ELSE [ok |-> TRUE, id |-> VersionIndex(d.versions, package_id, version)]

\* The first UPDATE overwriting the counter instead of adding to it.
update_total_downloads_overwrite(d, package_id) ==
    [d EXCEPT !.packages[package_id].total_downloads = 1]

\* UPDATE packages SET total_downloads = total_downloads + 1 WHERE id = $1
update_total_downloads(d, package_id) ==
    [d EXCEPT !.packages[package_id].total_downloads = @ + 1]

\* UPDATE versions SET downloads = downloads + 1 WHERE id = $1
update_downloads(d, version_id) ==
    [d EXCEPT !.versions[version_id].downloads = @ + 1]

\* Two UPDATE statements on one pooled client, each committed on its own:
\* fail1 ends the call before the first, fail2 between the two.
increment_download(d, package_id, version_id, fail1, fail2) ==
    IF fail1 THEN [db |-> d, ok |-> FALSE]
    ELSE LET d1 == update_total_downloads(d, package_id) IN
         IF fail2 THEN [db |-> d1, ok |-> FALSE]
         ELSE [db |-> update_downloads(d1, version_id), ok |-> TRUE]

\* SELECT last_processed_slot FROM indexer_state WHERE id = 1
get_last_processed_slot(d, fail) ==
    IF fail THEN [ok |-> FALSE, slot |-> 0]
    ELSE [ok |-> TRUE,
          slot |-> IF d.state.last_processed_slot > 0
                   THEN d.state.last_processed_slot ELSE 0]

\* UPDATE indexer_state SET last_processed_slot = $1, status = 'running'
update_last_processed_slot(d, slot, fail) ==
    IF fail THEN [db |-> d, ok |-> FALSE]
    ELSE [db |-> [d EXCEPT !.state.last_processed_slot = slot,
                           !.state.status = "running"],
          ok |-> TRUE]

\* update_indexer_error writing nothing.
update_indexer_error_quiet(d, error_msg, fail) == [db |-> d, ok |-> ~fail]

\* UPDATE indexer_state SET error_count = error_count + 1, last_error = $1
update_indexer_error(d, error_msg, fail) ==
    IF fail THEN [db |-> d, ok |-> FALSE]
    ELSE [db |-> [d EXCEPT !.state.error_count = @ + 1,
                           !.state.last_error = error_msg],
          ok |-> TRUE]

(***************************************************************************)
(* listener.rs ingest_event.  F is the set of store calls of the current   *)
(* step that end in a storage error, numbered in call order; k is the      *)
(* number of calls made before this one.  The helper answers Ok(()) on     *)
(* every path.                                                             *)
(***************************************************************************)
Unknown == "unknown"

\* The Published arm storing a version row also when no address was found.
IngestPublished_any_address(d, event, ipfs, F, k) ==
    IF event.version = None
      THEN [db |-> d, ret |-> "Ok", level |-> "warn", calls |-> k]
    ELSE LET p == insert_package(d, event.package_name, Unknown, (k + 1) \in F) IN
         IF ~p.ok THEN [db |-> d, ret |-> "Ok", level |-> "warn", calls |-> k + 1]
         ELSE LET v == insert_version(p.db, p.id, event.version, ipfs, (k + 2) \in F)
              IN [db |-> v.db, ret |-> "Ok",
                  level |-> IF v.ok THEN "info" ELSE "warn", calls |-> k + 2]

IngestPublished(d, event, ipfs, F, k) ==
    IF event.version = None
      THEN [db |-> d, ret |-> "Ok", level |-> "warn", calls |-> k]
    ELSE LET p == insert_package(d, event.package_name, Unknown, (k + 1) \in F) IN
         IF ~p.ok THEN [db |-> d, ret |-> "Ok", level |-> "warn", calls |-> k + 1]
         ELSE IF ipfs = Unknown
           THEN [db |-> p.db, ret |-> "Ok", level |-> "debug", calls |-> k + 1]
         ELSE LET v == insert_version(p.db, p.id, event.version, ipfs, (k + 2) \in F)
              IN [db |-> v.db, ret |-> "Ok",
                  level |-> IF v.ok THEN "info" ELSE "warn", calls |-> k + 2]

\* The Updated arm leaving an event for an unknown package alone.
IngestUpdated_known_only(d, event, ipfs, F, k) ==
    IF event.version = None
      THEN [db |-> d, ret |-> "Ok", level |-> "none", calls |-> k]
    ELSE LET g == get_package_id(d, event.package_name, (k + 1) \in F) IN
         IF ~(g.ok /\ g.id # 0)
           THEN [db |-> d, ret |-> "Ok", level |-> "debug", calls |-> k + 1]
         ELSE IF ipfs = Unknown
           THEN [db |-> d, ret |-> "Ok", level |-> "debug", calls |-> k + 1]
         ELSE LET v == insert_version(d, g.id, event.version, ipfs, (k + 2) \in F)
              IN [db |-> v.db, ret |-> "Ok",
                  level |-> IF v.ok THEN "info" ELSE "warn", calls |-> k + 2]

IngestUpdated(d, event, ipfs, F, k) ==
    IF event.version = None
      THEN [db |-> d, ret |-> "Ok", level |-> "none", calls |-> k]
    ELSE LET g == get_package_id(d, event.package_name, (k + 1) \in F)
             found == g.ok /\ g.id # 0
             p == IF found THEN [db |-> d, ok |-> TRUE, id |-> g.id]
                  ELSE insert_package(d, event.package_name, Unknown, (k + 2) \in F)
             kv == IF found THEN k + 1 ELSE k + 2
         IN IF ~p.ok THEN [db |-> d, ret |-> "Ok", level |-> "warn", calls |-> kv]
            ELSE IF ipfs = Unknown
              THEN [db |-> p.db, ret |-> "Ok", level |-> "debug", calls |-> kv]
            ELSE LET v == insert_version(p.db, p.id, event.version, ipfs, (kv + 1) \in F)
                 IN [db |-> v.db, ret |-> "Ok",
                     level |-> IF v.ok THEN "info" ELSE "warn", calls |-> kv + 1]

\* The Downloaded arm creating a missing package the way the Updated arm does.
IngestDownloaded_creates(d, event, F, k) ==
    IF event.version = None
      THEN [db |-> d, ret |-> "Ok", level |-> "none", calls |-> k]
    ELSE LET g == get_package_id(d, event.package_name, (k + 1) \in F) IN
         IF ~(g.ok /\ g.id # 0)
           THEN [db |-> insert_package(d, event.package_name, Unknown, FALSE).db,
                 ret |-> "Ok", level |-> "debug", calls |-> k + 1]
         ELSE LET v == get_version_id(d, g.id, event.version, (k + 2) \in F) IN
              IF ~(v.ok /\ v.id # 0)
                THEN [db |-> d, ret |-> "Ok", level |-> "debug", calls |-> k + 2]
              ELSE LET r == increment_download(d, g.id, v.id,
                                               (k + 3) \in F, (k + 4) \in F)
                   IN [db |-> r.db, ret |-> "Ok",
                       level |-> IF r.ok THEN "info" ELSE "warn",
                       calls |-> IF (k + 3) \in F THEN k + 3 ELSE k + 4]

IngestDownloaded(d, event, F, k) ==
    IF event.version = None
      THEN [db |-> d, ret |-> "Ok", level |-> "none", calls |-> k]
    ELSE LET g == get_package_id(d, event.package_name, (k + 1) \in F) IN
         IF ~(g.ok /\ g.id # 0)
           THEN [db |-> d, ret |-> "Ok", level |-> "debug", calls |-> k + 1]
         ELSE LET v == get_version_id(d, g.id, event.version, (k + 2) \in F) IN
              IF ~(v.ok /\ v.id # 0)
                THEN [db |-> d, ret |-> "Ok", level |-> "debug", calls |-> k + 2]
              ELSE LET r == increment_download(d, g.id, v.id,
                                               (k + 3) \in F, (k + 4) \in F)
                   IN [db |-> r.db, ret |-> "Ok",
                       level |-> IF r.ok THEN "info" ELSE "warn",
                       calls |-> IF (k + 3) \in F THEN k + 3 ELSE k + 4]

ingest_event(d, event, log, F, k) ==
    LET h == extract_ipfs_hash(log)
        ipfs == IF h = None THEN Unknown ELSE h
    IN CASE event.event_type = "PackagePublished" -> IngestPublished(d, event, ipfs, F, k)
         [] event.event_type = "PackageUpdated" -> IngestUpdated(d, event, ipfs, F, k)
         [] event.event_type = "PackageDownloaded" -> IngestDownloaded(d, event, F, k)
         [] OTHER -> [db |-> d, ret |-> "Ok", level |-> "none", calls |-> k]

\* The store calls one log line can make: insert_event and four in ingest_event.
MaxCalls == 5


(***************************************************************************)
(* The text of a log line.  A line is a string; positions count from 1, and *)
(* 0 stands for "not found" (the code's positions count from 0, with None). *)
(* An optional string is [found, value].                                   *)
(***************************************************************************)
NotFound == [found |-> FALSE, value |-> ""]
Found(v) == [found |-> TRUE, value |-> v]

\* str::len: the length in bytes.  The characters of TwoByte take two bytes
\* in UTF-8, every other character used here takes one.
TwoByte == {"é"}

RECURSIVE ByteLen(_)
ByteLen(s) ==
    IF s = "" THEN 0
    ELSE IF Len(s) = 1 THEN (IF s \in TwoByte THEN 2 ELSE 1)
    ELSE ByteLen(SubSeq(s, 1, Len(s) \div 2)) + ByteLen(SubSeq(s, Len(s) \div 2 + 1, Len(s)))

\* &s[i..]
From(s, i) == SubSeq(s, i, Len(s))

\* str::find with a string pattern.
Find(s, p) ==
    FirstId({i \in 1..(Len(s) - Len(p) + 1) : SubSeq(s, i, i + Len(p) - 1) = p})

\* str::find with a predicate on characters: C is the set it accepts.
FindIn(s, C) == FirstId({i \in 1..Len(s) : SubSeq(s, i, i) \in C})

Contains(s, p) == Find(s, p) # 0

StartsWith(s, p) == Len(s) >= Len(p) /\ SubSeq(s, 1, Len(p)) = p

\* char::is_whitespace
Whitespace == {" ", "\t", "\n", "\r"}

\* The one-byte letters and digits.
Letters == [upper |-> "ABCDEFGHIJKLMNOPQRSTUVWXYZ",
            lower |-> "abcdefghijklmnopqrstuvwxyz",
            digits |-> "0123456789"]

Chars(s) == {SubSeq(s, i, i) : i \in 1..Len(s)}

\* str::trim_start_matches: C is the set of characters trimmed.
TrimStartMatches(s, C) ==
    LET i == FirstId({j \in 1..Len(s) : SubSeq(s, j, j) \notin C})
    IN IF i = 0 THEN "" ELSE From(s, i)

\* str::trim_end_matches
TrimEndMatches(s, C) ==
    LET S == {j \in 1..Len(s) : SubSeq(s, j, j) \notin C}
    IN IF S = {} THEN "" ELSE SubSeq(s, 1, CHOOSE j \in S : \A k \in S : k <= j)

\* str::trim_matches: C is trimmed at both ends.
TrimMatches(s, C) == TrimEndMatches(TrimStartMatches(s, C), C)

\* str::trim
Trim(s) == TrimMatches(s, Whitespace)

\* A to_lowercase that leaves the text as it is.
to_lowercase_identity(s) == s

RECURSIVE to_lowercase(_)
\* str::to_lowercase, character by character.
to_lowercase(s) ==
    IF s = "" THEN ""
    ELSE IF Len(s) = 1
      THEN LET i == Find(Letters.upper, s)
           IN IF i = 0 THEN s ELSE SubSeq(Letters.lower, i, i)
    ELSE to_lowercase(SubSeq(s, 1, Len(s) \div 2))
         \o to_lowercase(SubSeq(s, Len(s) \div 2 + 1, Len(s)))

(***************************************************************************)
(* parser.rs on text.                                                      *)
(***************************************************************************)
NoInfo == [found |-> FALSE, name |-> "", version |-> NotFound]

\* "something: package-name@version"
try_extract_at_format(log) ==
    LET colons == {i \in 1..Len(log) : SubSeq(log, i, i) = ":"}
        \* log.rfind(':')
        colon_pos == IF colons = {} THEN 0
                     ELSE CHOOSE i \in colons : \A j \in colons : j <= i
    IN
    IF colon_pos = 0 THEN NoInfo
    ELSE LET after_colon == Trim(From(log, colon_pos + 1))
             \* the characters char::is_alphanumeric accepts
             Alphanumeric == Chars(Letters.upper) \cup Chars(Letters.lower)
                             \cup Chars(Letters.digits) \cup TwoByte
             cleaned == TrimStartMatches(after_colon,
                                         Chars(after_colon) \ (Alphanumeric \cup {"-", "_"}))
             at_pos == Find(cleaned, "@")
         IN IF at_pos = 0 THEN NoInfo
            ELSE LET package_name == Trim(SubSeq(cleaned, 1, at_pos - 1))
                     rest == TrimStartMatches(From(cleaned, at_pos + 1), Whitespace)
                     end == FindIn(rest, Whitespace)
                     version == IF end = 0 THEN rest ELSE SubSeq(rest, 1, end - 1)
                 IN IF package_name # "" /\ version # ""
                      THEN [found |-> TRUE, name |-> package_name,
                            version |-> Found(version)]
                      ELSE NoInfo

\* The value between the next two double quotes of after_field.
QuotedValue(after_field, quote) ==
    LET value_start == Find(after_field, quote) IN
    IF value_start = 0 THEN NotFound
    ELSE LET value_str == From(after_field, value_start + 1)
             value_end == Find(value_str, quote)
         IN IF value_end = 0 THEN NotFound
            ELSE LET value == Trim(SubSeq(value_str, 1, value_end - 1))
                 IN IF value # "" THEN Found(value) ELSE NotFound

\* "field":"value", then "field": "value"
try_extract_json_field(log, field) ==
    LET start == Find(log, "\"" \o field \o "\":")
        first == IF start = 0 THEN NotFound
                 ELSE QuotedValue(From(log, start + Len(field) + 3), "\"")
        spaced == Find(log, "\"" \o field \o "\": ")
    IN IF first.found THEN first
       ELSE IF spaced = 0 THEN NotFound
       ELSE QuotedValue(From(log, spaced + Len(field) + 4), "\"")

\* The value at the start of after_field: quoted, or up to a character of
\* Stop, or up to the end of the line.
ValueAt(after_field, Stop) ==
    IF StartsWith(after_field, "\"") \/ StartsWith(after_field, "'")
      THEN LET quote == SubSeq(after_field, 1, 1)
               value_str == From(after_field, 2)
               value_end == Find(value_str, quote)
           IN IF value_end = 0 THEN NotFound
              ELSE LET value == Trim(SubSeq(value_str, 1, value_end - 1))
                   IN IF value # "" THEN Found(value) ELSE NotFound
    ELSE LET end == FindIn(after_field, Stop)
             value == IF end = 0 THEN Trim(after_field)
                      ELSE Trim(SubSeq(after_field, 1, end - 1))
         IN IF value # "" THEN Found(value) ELSE NotFound

\* field=value
try_extract_kv_field(log, field) ==
    LET start == Find(log, field \o "=") IN
    IF start = 0 THEN NotFound
    ELSE ValueAt(From(log, start + Len(field) + 1), Whitespace \cup {",", "}", ")", "]"})

\* field: value
try_extract_colon_field(log, field) ==
    LET start == Find(log, field \o ": ") IN
    IF start = 0 THEN NotFound
    ELSE ValueAt(From(log, start + Len(field) + 2), Whitespace \cup {","})

\* The rest of the line after pattern, if the line has it.
StructuredValue(log, pattern) ==
    LET start == Find(log, pattern) IN
    IF start = 0 THEN NotFound
    ELSE LET after_pattern == From(log, start + Len(pattern))
             end == FindIn(after_pattern, {"\n", "\r"})
             value == IF end = 0 THEN Trim(after_pattern)
                      ELSE Trim(SubSeq(after_pattern, 1, end - 1))
         IN IF value # "" THEN Found(value) ELSE NotFound

\* "Program log: field value", then "Program data: field value"
try_extract_structured_field(log, field) ==
    LET first == StructuredValue(log, "Program log: " \o field \o " ") IN
    IF first.found THEN first
    ELSE StructuredValue(log, "Program data: " \o field \o " ")

OrElse(a, b) == IF a.found THEN a ELSE b

extract_field(log, field) ==
    OrElse(try_extract_json_field(log, field),
    OrElse(try_extract_kv_field(log, field),
    OrElse(try_extract_colon_field(log, field),
           try_extract_structured_field(log, field))))

\* extract_package_info answering nothing for a line without version.
extract_package_info_text_versioned(log) ==
    LET at_format == try_extract_at_format(log)
        package_name == OrElse(extract_field(log, "package"),
                        OrElse(extract_field(log, "name"), extract_field(log, "pkg")))
        version == OrElse(extract_field(log, "version"), extract_field(log, "ver"))
    IN IF at_format.found THEN at_format
       ELSE IF ~package_name.found \/ ~version.found THEN NoInfo
       ELSE [found |-> TRUE, name |-> package_name.value, version |-> version]

\* extract_package_info on text.
extract_package_info_text(log) ==
    LET at_format == try_extract_at_format(log)
        package_name == OrElse(extract_field(log, "package"),
                        OrElse(extract_field(log, "name"), extract_field(log, "pkg")))
        version == OrElse(extract_field(log, "version"), extract_field(log, "ver"))
    IN IF at_format.found THEN at_format
       ELSE IF ~package_name.found THEN NoInfo
       ELSE [found |-> TRUE, name |-> package_name.value, version |-> version]

\* The event markers parse_transaction finds in the lower-cased line.
Markers(log) ==
    LET log_lower == to_lowercase(log) IN
    {m \in {"publish"} :
        \/ Contains(log_lower, "packagepublished")
        \/ Contains(log_lower, "instruction: publish")
        \/ Contains(log_lower, "program log: publish")
        \/ Contains(log_lower, "package published:")}
    \cup {m \in {"update"} :
        \/ Contains(log_lower, "packageupdated")
        \/ Contains(log_lower, "instruction: update")
        \/ Contains(log_lower, "program log: update")}
    \cup {m \in {"download"} :
        \/ Contains(log_lower, "packagedownloaded")
        \/ Contains(log_lower, "instruction: download")
        \/ Contains(log_lower, "program log: download")}

Opt(o) == IF o.found THEN o.value ELSE None

(***************************************************************************)
(* listener.rs extract_ipfs_hash on text.  The positions found in the      *)
(* lower-cased line index the line itself: to_lowercase keeps the byte     *)
(* length of every character used here.                                    *)
(***************************************************************************)
\* listener.rs:23  `candidate.len() >= 46`
MinCidLen == 46
\* listener.rs:35  `trimmed.len() <= 60`
MaxCidLen == 60

\* ['"', '\'', ',', ';', ']', '}']
CidTrim == {"\"", "'", ",", ";", "]", "}"}

\* The candidate that follows position pos + width of the line, if long enough.
KeyCandidate(log, pos, width) ==
    IF pos = 0 THEN NotFound
    ELSE LET after == From(log, pos + width)
             stop == FindIn(after, Whitespace \cup {",", "\""})
             end == IF stop = 0 THEN Len(after) + 1 ELSE stop
             candidate == TrimMatches(Trim(SubSeq(after, 1, end - 1)), CidTrim)
         IN IF ByteLen(candidate) >= MinCidLen THEN Found(candidate) ELSE NotFound

\* One turn of the loop over the keys: `key=`, then `key: `.
KeyedCid(log, lower, key) ==
    OrElse(KeyCandidate(log, Find(lower, key \o "="), Len(key) + 1),
           KeyCandidate(log, Find(lower, key \o ": "), Len(key) + 2))

\* The fallback scan: the first part of the line, split at whitespace, ','
\* and ';', that starts with "Qm" and has a length in [46, 60].
QmToken(log) ==
    LET Delims == Whitespace \cup {",", ";"}
        \* the part of the split that starts at position i
        PartAt(i) == LET stop == FindIn(From(log, i), Delims)
                     IN IF stop = 0 THEN From(log, i) ELSE SubSeq(log, i, i + stop - 2)
        Trimmed(i) == TrimMatches(PartAt(i), CidTrim)
        starts == {i \in 1..Len(log) :
                     /\ i = 1 \/ SubSeq(log, i - 1, i - 1) \in Delims
                     /\ StartsWith(Trimmed(i), "Qm")
                     /\ ByteLen(Trimmed(i)) >= MinCidLen
                     /\ ByteLen(Trimmed(i)) <= MaxCidLen}
    IN IF starts = {} THEN NotFound ELSE Found(Trimmed(FirstId(starts)))

extract_ipfs_hash_text(log) ==
    LET lower == to_lowercase(log) IN
    OrElse(KeyedCid(log, lower, "ipfs_hash"),
    OrElse(KeyedCid(log, lower, "ipfs"),
    OrElse(KeyedCid(log, lower, "cid"),
           QmToken(log))))

(***************************************************************************)
(* From the text of a line to what the parser's scans find in it.          *)
(***************************************************************************)
ReadLine(log) ==
    LET info == extract_package_info_text(log)
        \* the program identifier the indexer is configured with (config.rs:23)
        ProgramId == "AntSoLProgram1111111111111111111111111111111"
    IN
    Line(Markers(log),
         Opt(extract_field(log, "event")),
         IF info.found THEN info.name ELSE None,
         Opt(info.version),
         Opt(extract_ipfs_hash_text(log)),
         Contains(log, ProgramId))

\* parse_transaction on text.
parse_transaction_text(log, signature, slot) ==
    parse_transaction(ReadLine(log), signature, slot)

(***************************************************************************)
(* The ledger (external).  The block of a position never changes; which    *)
(* transactions it holds repeats with period 4.  Signatures are unique     *)
(* over the ledger.                                                        *)
(***************************************************************************)
PkgA == "pkg-a"
PkgB == "pkg-b"
V1 == "1.0.0"

Sig(slot, i) == "sig-" \o ToString(slot) \o i

Tx(signature, err, logs) == [signature |-> signature, err |-> err, logs |-> logs]

Block(slot) ==
    CASE slot % 4 = 1 ->
           << Tx(Sig(slot, "a"), FALSE, <<InvokeLine, DownloadLine(PkgA, V1)>>),
              Tx(Sig(slot, "b"), FALSE, <<InvokeLine, PublishLine(PkgB, None, CidA)>>) >>
      [] slot % 4 = 2 ->
           << Tx(Sig(slot, "a"), FALSE, <<InvokeLine, PublishLine(PkgA, V1, CidA)>>),
              Tx(Sig(slot, "b"), FALSE, <<InvokeLine, DownloadLine(PkgA, V1)>>),
              Tx(Sig(slot, "c"), TRUE, <<InvokeLine, DownloadLine(PkgA, V1)>>) >>
      [] slot % 4 = 3 ->
           << Tx(Sig(slot, "a"), FALSE,
                 <<InvokeLine, UpdateLine(PkgA, V1, CidB), DownloadLine(PkgA, V1)>>),
              Tx(Sig(slot, "b"), FALSE, <<DownloadLine(PkgA, V1)>>) >>
      [] OTHER ->
           << Tx("", FALSE, <<InvokeLine, DownloadLine(PkgA, V1)>>),
              Tx(Sig(slot, "a"), FALSE, <<InvokeLine, DownloadLine(PkgB, V1)>>) >>

(***************************************************************************)
(* State.                                                                  *)
(***************************************************************************)
VARIABLES
    events,          \* table events, in insertion order
    packages,        \* table packages
    versions,        \* table versions
    indexer_state,   \* the singleton row of table indexer_state
    tip,             \* the ledger's current slot
    pc,              \* where the indexer task is
    last_slot,       \* start_indexer: last_slot
    current_slot,    \* start_indexer: current_slot of the range being processed
    slot,            \* start_indexer: the loop variable of the range
    txi,             \* process_slot: index of the transaction being scanned
    logi,            \* process_slot: index of the log line being parsed
    retry_count,     \* start_indexer: retry_count
    error_backoff,   \* start_indexer: error_backoff, in seconds
    restarts,        \* number of kills of the process so far
    manual_calls,    \* number of manual ingestion calls so far
    faults,          \* number of injected failures so far
    ranged,          \* history: the positions a range iteration has finished
                     \* after their block fetch answered a block or an error
    completed,       \* history: the end of the range the loop finished last, or 0
    last,            \* history: what the last step did
    workers,         \* the ingestions in flight, statement by statement
    reader,          \* a get_package_with_versions call in flight
    parser,          \* a manual ingestion call on the text of a log line
    query            \* the last request of a list endpoint and its store query

store == <<events, packages, versions, indexer_state>>

\* The environment has events left for r kills, m manual calls and f failures.
Allows(r, m, f) == r + m + f <= MaxEvents
scan == <<pc, last_slot, current_slot, slot, txi, logi, retry_count, error_backoff>>
vars == <<events, packages, versions, indexer_state, tip, pc, last_slot,
          current_slot, slot, txi, logi, retry_count, error_backoff,
          restarts, manual_calls, faults, ranged, completed, last,
          workers, reader, parser, query>>

\* The statement-level view of concurrent calls, the call on text, and the
\* list endpoints.
conc == <<workers, reader, parser, query>>

DB == [events |-> events, packages |-> packages, versions |-> versions,
       state |-> indexer_state]

SetDB(d) ==
    /\ events' = d.events
    /\ packages' = d.packages
    /\ versions' = d.versions
    /\ indexer_state' = d.state

\* slot: the position whose fetch failed; delay: the seconds slept after a
\* failed tip fetch; streak: the failed tip fetches in a row, this one included;
\* failed: the store calls of the step that met a storage error, in call order;
\* level: the level of the line ingest_event logged.
NoStep == [op |-> "none", req |-> None, event |-> NoEvent, insert_ok |-> FALSE,
           insert_id |-> 0, ingested |-> FALSE, ret |-> None, clean |-> TRUE,
           slot |-> 0, delay |-> 0, streak |-> 0, failed |-> {}, level |-> "none"]

Step(op, req, event, ins, ingested, ret, F) ==
    [op |-> op, req |-> req, event |-> event, insert_ok |-> ins.ok,
     insert_id |-> ins.id, ingested |-> ingested, ret |-> ret, clean |-> F = {},
     slot |-> 0, delay |-> 0, streak |-> 0, failed |-> F, level |-> "none"]

\* The callers of ingest_event whose statements interleave: the scan loop's
\* task and a request handler's task.
Workers == {"scan", "manual"}

\* stage: "idle", "resolved" (event row stored, ids looked up), "first" (the
\* first UPDATE of increment_download done); done: calls completed.
IdleWorker == [stage |-> "idle", package_id |-> 0, version_id |-> 0, done |-> 0]

\* stage: "idle", "package" (first query answered), "done" (both answered).
IdleReader == [stage |-> "idle", total_downloads |-> 0, downloads |-> 0]

\* stage: "idle", "input" (request received), "parsed", "answered"; input:
\* how the line was written; event, ipfs_hash: the handler's answer; cid:
\* what extract_ipfs_hash answers for the line, once extracted.  The request's
\* slot is << >> (absent) or <<s>>.
IdleParser == [stage |-> "idle", input |-> << >>, log |-> "", signature |-> None,
               slot |-> << >>, event |-> NoEvent, ipfs_hash |-> None,
               extracted |-> FALSE, cid |-> NotFound]

\* limit: what the client sent, << >> when the parameter is absent; passed:
\* the LIMIT parameter of the store query.
NoQuery == [endpoint |-> "none", limit |-> << >>, passed |-> 0]

NoOverride == 0 - 1
OverrideSlot == StartTip - 1

Init ==
    /\ events = << >>
    /\ packages = << >>
    /\ versions = << >>
    /\ indexer_state = [last_processed_slot |-> 0, status |-> "idle",
                        error_count |-> 0, last_error |-> None]
    /\ tip = StartTip
    /\ pc = "stopped"
    /\ last_slot = 0
    /\ current_slot = 0
    /\ slot = 0
    /\ txi = 0
    /\ logi = 0
    /\ retry_count = 0
    /\ error_backoff = BaseBackoff
    /\ restarts = 0
    /\ manual_calls = 0
    /\ faults = 0
    /\ ranged = {}
    /\ completed = 0
    /\ last = NoStep
    /\ workers = [w \in Workers |-> IdleWorker]
    /\ reader = IdleReader
    /\ parser = IdleParser
    /\ query = NoQuery

(***************************************************************************)
(* api/handlers.rs ingest_log_handler                                      *)
(***************************************************************************)
Request(log, signature, req_slot) ==
    [log |-> log, signature |-> signature, slot |-> req_slot]

\* The requests sent: a publish without content identifier, a download and an
\* unrecognised line under the sentinel signature, and a download without
\* version under a signature of the ledger.
Requests == {Request(PublishLine(PkgA, V1, None), None, None),
             Request(DownloadLine(PkgA, V1), None, None),
             Request(RandomLine, None, None),
             Request(DownloadLine(PkgA, None), Sig(StartTip + 1, "a"), None)}

\* The handler's effect on the store: insert_event, then ingest_event whatever
\* the insert answered.
ManualIngest(d, event, log, F) ==
    LET ins == insert_event(d, event, 1 \in F)
        ing == ingest_event(ins.db, event, log, F, 1)
    IN [db |-> ing.db, ins |-> ins, ingested |-> TRUE, ret |-> ing.ret,
        calls |-> ing.calls, level |-> ing.level]

ingest_log_handler(req, F) ==
    LET signature == IF req.signature = None THEN ManualSig ELSE req.signature
        s == IF req.slot = None THEN ManualSlot ELSE req.slot
        event == parse_transaction(req.log, signature, s)
    IN /\ manual_calls' = manual_calls + 1
       /\ faults' = faults + Cardinality(F)
       /\ Allows(restarts, manual_calls', faults')
       /\ IF IsSome(event)
            THEN LET r == ManualIngest(DB, event, req.log, F) IN
                 /\ F \subseteq 1..r.calls
                 /\ SetDB(r.db)
                 /\ last' = [Step("manual", req, event, r.ins, r.ingested, r.ret, F)
                                EXCEPT !.level = r.level]
            ELSE /\ F = {}
                 /\ UNCHANGED store
                 /\ last' = [NoStep EXCEPT !.op = "manual", !.req = req]
       /\ UNCHANGED <<tip, scan, restarts, ranged, completed, conc>>

IngestLog == \E req \in Requests, F \in SUBSET (1..MaxCalls) : ingest_log_handler(req, F)

(***************************************************************************)
(* listener.rs process_slot: which log lines of a block reach insert_event *)
(***************************************************************************)
\* The scan keeping failed transactions too.
Involved_failed_too(tx) ==
    /\ tx.signature # ""
    /\ \E i \in 1..Len(tx.logs) : tx.logs[i].program

\* A transaction the scan keeps: it has a signature, it succeeded, and one of
\* its log lines contains the program identifier.
Involved(tx) ==
    /\ tx.signature # ""
    /\ ~tx.err
    /\ \E i \in 1..Len(tx.logs) : tx.logs[i].program

ParsedAt(s, t, l) ==
    parse_transaction(Block(s)[t].logs[l], Block(s)[t].signature, s)

\* The (transaction, line) pairs of block s whose line parses to an event.
Positions(s) ==
    UNION { {<<t, l>> : l \in {i \in 1..Len(Block(s)[t].logs) : IsSome(ParsedAt(s, t, i))}}
            : t \in {i \in 1..Len(Block(s)) : Involved(Block(s)[i])} }

Before(a, b) == a[1] < b[1] \/ (a[1] = b[1] /\ a[2] <= b[2])

NoPos == <<0, 0>>

\* The first such pair at or after (t, l) in the order of the two loops.
NextPos(s, t, l) ==
    LET S == {pos \in Positions(s) : Before(<<t, l>>, pos)} IN
    IF S = {} THEN NoPos ELSE CHOOSE pos \in S : \A q \in S : Before(pos, q)

(***************************************************************************)
(* listener.rs start_indexer                                               *)
(***************************************************************************)
ResetLocals ==
    /\ last_slot' = 0
    /\ current_slot' = 0
    /\ slot' = 0
    /\ txi' = 0
    /\ logi' = 0
    /\ retry_count' = 0
    /\ error_backoff' = BaseBackoff

\* The cursor the loop starts from: persisted state > override > current slot;
\* 0 - 1 when the initial tip fetch fails and the function returns.
StartCursor(d, ov, read_fail, rpc_fail, t) ==
    LET r == get_last_processed_slot(d, read_fail) IN
    IF r.ok /\ r.slot > 0 THEN r.slot
    ELSE IF ov # NoOverride THEN ov
    ELSE IF ~rpc_fail THEN t
    ELSE 0 - 1

Count(failed) == IF failed THEN 1 ELSE 0

\* get_slot answers the ledger's current slot, which never goes back.
Tips == tip..MaxSlot

\* Is the tip fetch of line 166 reached?
FetchesInitialTip(d, ov, read_fail) ==
    LET r == get_last_processed_slot(d, read_fail) IN
    ~(r.ok /\ r.slot > 0) /\ ov = NoOverride

\* The process starts: lines 156-182.
StartIndexer ==
    \E ov \in {NoOverride, OverrideSlot}, read_fail \in BOOLEAN, rpc_fail \in BOOLEAN,
       t \in Tips :
        LET c == StartCursor(DB, ov, read_fail, rpc_fail, t) IN
        /\ pc = "stopped"
        /\ IF FetchesInitialTip(DB, ov, read_fail)
             THEN tip' = (IF rpc_fail THEN tip ELSE t)
             ELSE ~rpc_fail /\ t = tip /\ tip' = tip
        /\ IF c >= 0
             THEN /\ pc' = "poll"
                  /\ last_slot' = c
             ELSE /\ pc' = "exited"
                  /\ last_slot' = 0
        /\ retry_count' = 0
        /\ error_backoff' = BaseBackoff
        /\ completed' = 0
        /\ last' = NoStep
        /\ faults' = faults + Count(read_fail) + Count(rpc_fail)
        /\ Allows(restarts, manual_calls, faults')
        /\ UNCHANGED <<store, current_slot, slot, txi, logi, restarts,
                       manual_calls, ranged, conc>>

\* The range loop jumping to the end of its range after the first position.
AdvanceSlot_skipping ==
    IF slot = current_slot
      THEN /\ last_slot' = current_slot
           /\ pc' = "sleep"
           /\ completed' = current_slot
           /\ UNCHANGED <<current_slot, slot>>
      ELSE /\ slot' = current_slot
           /\ pc' = "fetch"
           /\ UNCHANGED <<last_slot, current_slot, completed>>

\* The loop variable moves on, or the range ends (line 226) and the loop
\* sleeps for the polling interval (line 256).
AdvanceSlot ==
    IF slot = current_slot
      THEN /\ last_slot' = current_slot
           /\ pc' = "sleep"
           /\ completed' = current_slot
           /\ UNCHANGED <<current_slot, slot>>
      ELSE /\ slot' = slot + 1
           /\ pc' = "fetch"
           /\ UNCHANGED <<last_slot, current_slot, completed>>

\* One turn of the loop whose tip fetch succeeds: lines 186-199, 256.
PollOk ==
    \E t \in Tips :
        /\ pc = "poll"
        /\ tip' = t
        /\ retry_count' = 0
        /\ error_backoff' = BaseBackoff
        /\ IF t > last_slot
             THEN /\ current_slot' = t
                  /\ slot' = last_slot + 1
                  /\ pc' = "fetch"
                  /\ completed' = 0
             ELSE /\ pc' = "sleep"
                  /\ UNCHANGED <<current_slot, slot, completed>>
        /\ last' = NoStep
        /\ UNCHANGED <<store, last_slot, txi, logi, restarts, manual_calls, faults,
                       ranged, conc>>

\* The polling interval is over: line 256.
Sleep ==
    /\ pc = "sleep"
    /\ pc' = "poll"
    /\ last' = NoStep
    /\ UNCHANGED <<store, tip, last_slot, current_slot, slot, txi, logi, retry_count,
                   error_backoff, restarts, manual_calls, faults, ranged, completed,
                   conc>>

Min(a, b) == IF a <= b THEN a ELSE b

\* One turn of the loop whose tip fetch fails: lines 229-252.  budget is the
\* number of failures the environment may still inject.
PollErrStep(budget) ==
    \E db_fail \in BOOLEAN :
        LET ceiling == retry_count + 1 >= max_retries
            backoff == Min(error_backoff * 2, MaxBackoff)
        IN /\ pc = "poll"
           /\ faults' = faults + 1 + Count(db_fail)
           /\ faults' <= budget
           /\ IF ceiling
                THEN /\ error_backoff' = backoff
                     /\ retry_count' = 0
                ELSE /\ retry_count' = retry_count + 1
                     /\ UNCHANGED error_backoff
           /\ SetDB(update_indexer_error(DB, [kind |-> "rpc", slot |-> 0], db_fail).db)
           /\ last' = [NoStep EXCEPT
                         !.op = "poll_err",
                         !.delay = IF ceiling THEN backoff ELSE ShortDelay,
                         !.streak = IF last.op = "poll_err" THEN last.streak + 1 ELSE 1]
           /\ UNCHANGED <<tip, pc, last_slot, current_slot, slot, txi, logi, restarts,
                          manual_calls, ranged, completed, conc>>

PollErr == PollErrStep(MaxEvents - restarts - manual_calls)

\* process_slot up to the transaction loop: lines 266-291; on an error other
\* than skipped / not available, the Err arm of the range loop, lines 214-222.
FetchBlock ==
    \E outcome \in {"block", "skipped", "error"}, db_fail \in BOOLEAN :
        /\ pc = "fetch"
        /\ last' = (IF outcome = "error"
                      THEN [NoStep EXCEPT !.op = "slot_err", !.slot = slot,
                                          !.clean = ~db_fail]
                      ELSE NoStep)
        /\ UNCHANGED <<tip, retry_count, error_backoff, restarts, manual_calls, conc>>
        /\ faults' = faults + Count(outcome = "error") + Count(db_fail)
        /\ Allows(restarts, manual_calls, faults')
        /\ CASE outcome = "error" ->
                  /\ SetDB(update_indexer_error(DB, [kind |-> "slot", slot |-> slot],
                                                db_fail).db)
                  /\ ranged' = ranged \cup {slot}
                  /\ AdvanceSlot
                  /\ UNCHANGED <<txi, logi>>
             [] outcome = "skipped" ->
                  /\ ~db_fail
                  /\ pc' = "slot_skipped"
                  /\ UNCHANGED <<store, last_slot, current_slot, slot, txi, logi,
                                 ranged, completed>>
             [] outcome = "block" ->
                  LET pos == NextPos(slot, 1, 1) IN
                  /\ ~db_fail
                  /\ pc' = IF pos = NoPos THEN "slot_ok" ELSE "logs"
                  /\ txi' = pos[1]
                  /\ logi' = pos[2]
                  /\ UNCHANGED <<store, last_slot, current_slot, slot, ranged, completed>>

\* The scan loop's effect on the store for one parsed line: insert_event, and
\* ingest_event in the Ok arm (lines 335-366).
ScanIngest(d, event, log, F) ==
    LET ins == insert_event(d, event, 1 \in F) IN
    IF ins.ok
      THEN LET ing == ingest_event(ins.db, event, log, F, 1) IN
           [db |-> ing.db, ins |-> ins, ingested |-> TRUE, ret |-> ing.ret,
            calls |-> ing.calls, level |-> ing.level]
      ELSE [db |-> d, ins |-> ins, ingested |-> FALSE, ret |-> None, calls |-> 1,
            level |-> "none"]

\* One parsed log line of the block: lines 332-368.
ProcessLog ==
    \E F \in SUBSET (1..MaxCalls) :
        LET log == Block(slot)[txi].logs[logi]
            event == ParsedAt(slot, txi, logi)
            r == ScanIngest(DB, event, log, F)
            pos == NextPos(slot, txi, logi + 1)
        IN /\ pc = "logs"
           /\ faults' = faults + Cardinality(F)
           /\ Allows(restarts, manual_calls, faults')
           /\ F \subseteq 1..r.calls
           /\ SetDB(r.db)
           /\ last' = [Step("scan", None, event, r.ins, r.ingested, r.ret, F)
                          EXCEPT !.level = r.level]
           /\ pc' = IF pos = NoPos THEN "slot_ok" ELSE "logs"
           /\ txi' = pos[1]
           /\ logi' = pos[2]
           /\ UNCHANGED <<tip, last_slot, current_slot, slot, retry_count,
                          error_backoff, restarts, manual_calls, ranged, completed,
                          conc>>

\* The Ok arm of the range loop never writing the cursor.
WritesCursor_never(s, cur) == FALSE

\* Does the Ok arm of the range loop write the cursor?  Line 204.
WritesCursor(s, cur) == s % PersistEvery = 0 \/ s = cur

\* process_slot answered Ok: lines 202-213.
FinishSlot ==
    \E db_fail \in BOOLEAN :
        /\ pc \in {"slot_ok", "slot_skipped"}
        /\ IF WritesCursor(slot, current_slot)
             THEN SetDB(update_last_processed_slot(DB, slot, db_fail).db)
             ELSE /\ ~db_fail
                  /\ UNCHANGED store
        /\ ranged' = (IF pc = "slot_ok" THEN ranged \cup {slot} ELSE ranged)
        /\ AdvanceSlot
        /\ last' = NoStep
        /\ faults' = faults + Count(db_fail)
        /\ Allows(restarts, manual_calls, faults')
        /\ UNCHANGED <<tip, txi, logi, retry_count, error_backoff, restarts,
                       manual_calls, conc>>

(***************************************************************************)
(* The environment: the process is killed (and started again by            *)
(* StartIndexer).                                                          *)
(***************************************************************************)
Crash ==
    /\ pc # "stopped"
    /\ restarts' = restarts + 1
    /\ Allows(restarts', manual_calls, faults)
    /\ pc' = "stopped"
    /\ ResetLocals
    /\ last' = NoStep
    /\ UNCHANGED <<store, tip, manual_calls, faults, ranged, completed, conc>>

Next ==
    \/ StartIndexer
    \/ PollOk
    \/ Sleep
    \/ PollErr
    \/ FetchBlock
    \/ ProcessLog
    \/ FinishSlot
    \/ Crash
    \/ IngestLog


Spec == Init /\ [][Next]_vars

\* The scan task is scheduled again whenever the call it awaits has answered:
\* its steps are fair.  Failures, kills and manual calls are not.  The task is
\* sequential: pc enables the steps of one of these at a time.
ScanStep == PollOk \/ Sleep \/ FetchBlock \/ FinishSlot

\* ProcessLog is enabled whenever pc = "logs" and a block has finitely many
\* lines: its weak fairness says that pc does not stay "logs" for ever.
FairSpec == Spec /\ WF_vars(ScanStep) /\ []<>(pc # "logs")

(***************************************************************************)
(* The polling loop alone, caught up with a ledger whose tip stays, under  *)
(* tip fetches that fail any number of times up to MaxFailures.            *)
(***************************************************************************)
InitPoll ==
    /\ events = << >>
    /\ packages = << >>
    /\ versions = << >>
    /\ indexer_state = [last_processed_slot |-> 0, status |-> "idle",
                        error_count |-> 0, last_error |-> None]
    /\ tip = MaxSlot
    /\ pc = "poll"
    /\ last_slot = MaxSlot
    /\ current_slot = 0
    /\ slot = 0
    /\ txi = 0
    /\ logi = 0
    /\ retry_count = 0
    /\ error_backoff = BaseBackoff
    /\ restarts = 0
    /\ manual_calls = 0
    /\ faults = 0
    /\ ranged = {}
    /\ completed = 0
    /\ last = NoStep
    /\ workers = [w \in Workers |-> IdleWorker]
    /\ reader = IdleReader
    /\ parser = IdleParser
    /\ query = NoQuery

PollErrRun == PollErrStep(MaxFailures)

NextPoll ==
    \/ PollOk
    \/ Sleep
    \/ PollErrRun

SpecPoll == InitPoll /\ [][NextPoll]_vars


(***************************************************************************)
(* The statement-level view: two callers of ingest_event (the scan task    *)
(* and a request handler) ingest Downloaded events for a stored package    *)
(* and version while get_package_with_versions reads it.  Every statement  *)
(* is a step of its own, committed when it returns (no transaction).       *)
(***************************************************************************)
RECURSIVE SumDownloads(_, _)
\* The sum of downloads over the versions rows of package p.
SumDownloads(vs, p) ==
    IF vs = << >> THEN 0
    ELSE (IF vs[1].package_id = p THEN vs[1].downloads ELSE 0)
         + SumDownloads(Tail(vs), p)

\* The store after a scan pass ingested the publication of pkg-a@1.0.0.
PublishedStore ==
    LET log == PublishLine(PkgA, V1, CidA)
        d0 == [events |-> << >>, packages |-> << >>, versions |-> << >>,
               state |-> [last_processed_slot |-> 0, status |-> "idle",
                          error_count |-> 0, last_error |-> None]]
    IN ScanIngest(d0, parse_transaction(log, Sig(StartTip, "p"), StartTip), log, {}).db

InitConc ==
    /\ events = PublishedStore.events
    /\ packages = PublishedStore.packages
    /\ versions = PublishedStore.versions
    /\ indexer_state = PublishedStore.state
    /\ tip = StartTip
    /\ pc = "stopped"
    /\ last_slot = 0
    /\ current_slot = 0
    /\ slot = 0
    /\ txi = 0
    /\ logi = 0
    /\ retry_count = 0
    /\ error_backoff = BaseBackoff
    /\ restarts = 0
    /\ manual_calls = 0
    /\ faults = 0
    /\ ranged = {}
    /\ completed = 0
    /\ last = NoStep
    /\ workers = [w \in Workers |-> IdleWorker]
    /\ reader = IdleReader
    /\ parser = IdleParser
    /\ query = NoQuery

\* The i-th Downloaded event of caller w, each under a signature of its own.
DownloadEvent(w, i) ==
    parse_transaction(DownloadLine(PkgA, V1), "dl-" \o w \o ToString(i),
                      IF w = "scan" THEN StartTip ELSE ManualSlot)

\* insert_event and the two lookups of the Downloaded arm (listener.rs:100-101):
\* the statements of a call that write no counter.
Resolve(w) ==
    LET event == DownloadEvent(w, workers[w].done + 1)
        ins == insert_event(DB, event, FALSE)
        g == get_package_id(ins.db, event.package_name, FALSE)
        v == IF g.id = 0 THEN [ok |-> TRUE, id |-> 0]
             ELSE get_version_id(ins.db, g.id, event.version, FALSE)
    IN /\ workers[w].stage = "idle"
       /\ workers[w].done < PerWorker
       /\ SetDB(ins.db)
       /\ workers' = [workers EXCEPT ![w] =
                        IF v.id = 0
                          THEN [@ EXCEPT !.done = @ + 1]
                          ELSE [@ EXCEPT !.stage = "resolved", !.package_id = g.id,
                                         !.version_id = v.id]]
       /\ UNCHANGED <<tip, scan, restarts, manual_calls, faults, ranged, completed,
                      last, reader, parser, query>>

\* increment_download: its first UPDATE.
FirstUpdate(w) ==
    /\ workers[w].stage = "resolved"
    /\ SetDB(update_total_downloads(DB, workers[w].package_id))
    /\ workers' = [workers EXCEPT ![w].stage = "first"]
    /\ UNCHANGED <<tip, scan, restarts, manual_calls, faults, ranged, completed,
                   last, reader, parser, query>>

\* increment_download: its second UPDATE; the call returns.
SecondUpdate(w) ==
    /\ workers[w].stage = "first"
    /\ SetDB(update_downloads(DB, workers[w].version_id))
    /\ workers' = [workers EXCEPT ![w] = [IdleWorker EXCEPT !.done = workers[w].done + 1]]
    /\ UNCHANGED <<tip, scan, restarts, manual_calls, faults, ranged, completed,
                   last, reader, parser, query>>

\* get_package_with_versions: the query on packages (queries.rs:103-113).
ReadPackage ==
    LET i == PackageIndex(packages, PkgA) IN
    /\ reader.stage \in {"idle", "done"}
    /\ reader' = IF i = 0 THEN IdleReader
                  ELSE [stage |-> "package",
                        total_downloads |-> packages[i].total_downloads,
                        downloads |-> 0]
    /\ UNCHANGED <<store, tip, scan, restarts, manual_calls, faults, ranged,
                   completed, last, workers, parser, query>>

\* get_package_with_versions: the query on versions (queries.rs:115-121); the
\* call answers the package row read before with these version rows.
ReadVersions ==
    /\ reader.stage = "package"
    /\ reader' = [reader EXCEPT
                    !.stage = "done",
                    !.downloads = SumDownloads(versions, PackageIndex(packages, PkgA))]
    /\ UNCHANGED <<store, tip, scan, restarts, manual_calls, faults, ranged,
                   completed, last, workers, parser, query>>

NextConc ==
    \/ \E w \in Workers : Resolve(w)
    \/ \E w \in Workers : FirstUpdate(w)
    \/ \E w \in Workers : SecondUpdate(w)
    \/ ReadPackage
    \/ ReadVersions

SpecConc == InitConc /\ [][NextConc]_vars

(***************************************************************************)
(* The manual ingestion endpoint on the text of a log line: the request is *)
(* parsed (handlers.rs:163-165), then stored and answered (166-195);       *)
(* extract_ipfs_hash is also applied to the line on its own.  A line is    *)
(* written from markers, name fields, a version field and a content        *)
(* address, each in one of the forms the parser knows.                     *)
(***************************************************************************)
\* The event markers written in one line, at most.
MaxMarkers == 2

Mk(text, type) == [text |-> text, type |-> type]

\* Marker texts and the event type each stands for; "event=Custom" is the
\* generic marker.
MarkerTexts ==
    {Mk("PackagePublished", "PackagePublished"),
     Mk("instruction: PUBLISH", "PackagePublished"),
     Mk("PackageUpdated", "PackageUpdated"),
     Mk("INSTRUCTION: Update", "PackageUpdated"),
     Mk("PackageDownloaded", "PackageDownloaded"),
     Mk("Instruction: download", "PackageDownloaded"),
     Mk("event=Custom", "Custom")}

NamedMarkers == {Mk("PackagePublished", "PackagePublished"),
                 Mk("PackageUpdated", "PackageUpdated"),
                 Mk("PackageDownloaded", "PackageDownloaded")}

Field(form, key, value) == [form |-> form, key |-> key, value |-> value]
NoField == Field("none", "", "")

RenderField(f) ==
    CASE f.form = "json" -> "\"" \o f.key \o "\":\"" \o f.value \o "\""
      [] f.form = "kv" -> f.key \o "=" \o f.value
      [] f.form = "kv_quoted" -> f.key \o "=\"" \o f.value \o "\""
      [] f.form = "colon" -> f.key \o ": " \o f.value
      [] f.form = "token" -> f.value
      [] OTHER -> ""

RECURSIVE RenderAll(_)
\* The pieces of a line, each after a space.
RenderAll(pieces) ==
    IF pieces = << >> THEN ""
    ELSE (IF Head(pieces) = "" THEN "" ELSE " " \o Head(pieces)) \o RenderAll(Tail(pieces))

Input(markers, names, version, cid) ==
    [markers |-> markers, names |-> names, version |-> version, cid |-> cid]

Render(inp) ==
    "Program log:"
    \o RenderAll([i \in 1..Len(inp.markers) |-> inp.markers[i].text])
    \o RenderAll([i \in 1..Len(inp.names) |-> RenderField(inp.names[i])])
    \o RenderAll(<<RenderField(inp.version), RenderField(inp.cid)>>)

\* Lines with up to MaxMarkers markers, with and without a name.
PriorityInputs ==
    {Input(ms, ns, NoField, NoField) :
        ms \in UNION {[1..n -> MarkerTexts] : n \in 0..MaxMarkers},
        ns \in {<< >>, <<Field("kv", "package", "pkg-a")>>}}

NameForms == {"json", "kv", "colon"}

\* Lines with two names, written in different forms or under different keys.
CascadeInputs ==
    {inp \in {Input(<<Mk("PackagePublished", "PackagePublished")>>,
                    <<Field(f1, k1, "first-pkg"), Field(f2, k2, "second-pkg")>>,
                    NoField, NoField) :
                 f1 \in NameForms, k1 \in {"package", "name", "pkg"},
                 f2 \in NameForms, k2 \in {"package", "name", "pkg"}} :
        <<inp.names[1].form, inp.names[1].key>> # <<inp.names[2].form, inp.names[2].key>>}

\* Lines with one named marker and a (name, version) pair, or a name alone,
\* in one form.
PairInputs ==
    {Input(<<m>>, <<Field(f, "package", n)>>,
           IF w = "" THEN NoField ELSE Field(f, "version", w), NoField) :
        m \in NamedMarkers, f \in NameForms \cup {"kv_quoted"}, n \in {"my-pkg", "@scope/my-pkg"},
        w \in {"1.0.0", "1.0.0-beta.1", ""}}

RECURSIVE Repeat(_, _)
Repeat(c, n) == IF n = 0 THEN "" ELSE c \o Repeat(c, n - 1)

\* Candidate content addresses: around both length limits, with and without
\* the "Qm" prefix, and one of two-byte characters.
CidValues ==
    {"Qm" \o Repeat("a", MinCidLen - 3), "Qm" \o Repeat("a", MinCidLen - 2),
     "Qm" \o Repeat("a", MaxCidLen - 2), "Qm" \o Repeat("a", MaxCidLen - 1),
     Repeat("b", MinCidLen - 1), Repeat("b", MinCidLen),
     "Qm" \o Repeat("é", (MinCidLen - 2) \div 2)}

\* Published lines with a content address under a key or as a bare token.
CidInputs ==
    {Input(<<Mk("PackagePublished", "PackagePublished")>>,
           <<Field("kv", "package", "pkg-a")>>, Field("kv", "version", V1), c) :
        c \in {Field(f, k, v) : f \in {"kv", "colon"}, k \in {"ipfs_hash", "ipfs", "cid"},
                              v \in CidValues}
              \cup {Field("token", "", v) : v \in CidValues}}

InitParse ==
    /\ events = << >>
    /\ packages = << >>
    /\ versions = << >>
    /\ indexer_state = [last_processed_slot |-> 0, status |-> "idle",
                        error_count |-> 0, last_error |-> None]
    /\ tip = StartTip
    /\ pc = "stopped"
    /\ last_slot = 0
    /\ current_slot = 0
    /\ slot = 0
    /\ txi = 0
    /\ logi = 0
    /\ retry_count = 0
    /\ error_backoff = BaseBackoff
    /\ restarts = 0
    /\ manual_calls = 0
    /\ faults = 0
    /\ ranged = {}
    /\ completed = 0
    /\ last = NoStep
    /\ workers = [w \in Workers |-> IdleWorker]
    /\ reader = IdleReader
    /\ \E inp \in PriorityInputs \cup CascadeInputs \cup PairInputs \cup CidInputs,
          sig \in {None, "sig-text"}, s \in {<< >>, <<StartTip>>} :
         parser = [IdleParser EXCEPT !.stage = "input", !.input = inp,
                                     !.log = Render(inp), !.signature = sig,
                                     !.slot = s]
    /\ query = NoQuery

\* handlers.rs:163-165: the defaults and parse_transaction.
ParseRequest ==
    LET signature == IF parser.signature = None THEN ManualSig ELSE parser.signature
        s == IF parser.slot = << >> THEN ManualSlot ELSE parser.slot[1]
    IN /\ parser.stage = "input"
       /\ parser' = [parser EXCEPT
                       !.stage = "parsed",
                       !.event = parse_transaction_text(parser.log, signature, s)]
       /\ UNCHANGED <<store, tip, scan, restarts, manual_calls, faults, ranged,
                      completed, last, workers, reader, query>>

\* handlers.rs:166-195: insert_event, ingest_event and the answer.
AnswerRequest ==
    /\ parser.stage = "parsed"
    /\ IF IsSome(parser.event)
         THEN /\ SetDB(ManualIngest(DB, parser.event, ReadLine(parser.log), {}).db)
              /\ parser' = [parser EXCEPT
                              !.stage = "answered",
                              !.ipfs_hash = Opt(extract_ipfs_hash_text(parser.log))]
         ELSE /\ UNCHANGED store
              /\ parser' = [parser EXCEPT !.stage = "answered"]
    /\ UNCHANGED <<tip, scan, restarts, manual_calls, faults, ranged, completed,
                   last, workers, reader, query>>

\* listener.rs:15-40: extract_ipfs_hash applied to the line.
ExtractCid ==
    /\ parser.stage # "idle"
    /\ ~parser.extracted
    /\ parser' = [parser EXCEPT !.extracted = TRUE,
                                !.cid = extract_ipfs_hash_text(parser.log)]
    /\ UNCHANGED <<store, tip, scan, restarts, manual_calls, faults, ranged,
                   completed, last, workers, reader, query>>

NextParse ==
    \/ ParseRequest
    \/ AnswerRequest
    \/ ExtractCid

SpecParse == InitParse /\ [][NextParse]_vars

(***************************************************************************)
(* api/handlers.rs: the list endpoints.  A request carries limit, or none  *)
(* and the default applies; the handler passes a limit to its store query. *)
(***************************************************************************)
\* The largest limit a client sends.
MaxLimit == 101

\* handlers.rs:55  `fn default_limit() -> i64 { 20 }`
DefaultLimit == 20
\* handlers.rs:118  `params.limit.min(100)`
LimitCap == 100

\* #[serde(default = "default_limit")]
ParamLimit(sent) == IF sent = << >> THEN DefaultLimit ELSE sent[1]

\* What clients send as limit: nothing, or an integer.
SentLimits == {<< >>} \cup {<<n>> : n \in (0 - 1)..MaxLimit}

InitQuery ==
    /\ events = PublishedStore.events
    /\ packages = PublishedStore.packages
    /\ versions = PublishedStore.versions
    /\ indexer_state = PublishedStore.state
    /\ tip = StartTip
    /\ pc = "stopped"
    /\ last_slot = 0
    /\ current_slot = 0
    /\ slot = 0
    /\ txi = 0
    /\ logi = 0
    /\ retry_count = 0
    /\ error_backoff = BaseBackoff
    /\ restarts = 0
    /\ manual_calls = 0
    /\ faults = 0
    /\ ranged = {}
    /\ completed = 0
    /\ last = NoStep
    /\ workers = [w \in Workers |-> IdleWorker]
    /\ reader = IdleReader
    /\ parser = IdleParser
    /\ query = NoQuery

\* queries::search_packages(&pool, &params.q, params.limit, params.offset)
search_packages_handler ==
    /\ \E sent \in SentLimits :
         query' = [endpoint |-> "search", limit |-> sent, passed |-> ParamLimit(sent)]
    /\ UNCHANGED <<store, tip, scan, restarts, manual_calls, faults, ranged,
                   completed, last, workers, reader, parser>>

\* queries::list_packages(&pool, params.limit, params.offset)
list_packages_handler ==
    /\ \E sent \in SentLimits :
         query' = [endpoint |-> "packages", limit |-> sent, passed |-> ParamLimit(sent)]
    /\ UNCHANGED <<store, tip, scan, restarts, manual_calls, faults, ranged,
                   completed, last, workers, reader, parser>>

\* queries::get_recent_events(&pool, params.limit.min(100))
get_recent_events_handler ==
    /\ \E sent \in SentLimits :
         query' = [endpoint |-> "recent_events", limit |-> sent,
                   passed |-> Min(ParamLimit(sent), LimitCap)]
    /\ UNCHANGED <<store, tip, scan, restarts, manual_calls, faults, ranged,
                   completed, last, workers, reader, parser>>

\* queries::get_package_events(&pool, &package_name, params.limit.min(100), ..)
get_package_events_handler ==
    /\ \E sent \in SentLimits :
         query' = [endpoint |-> "package_events", limit |-> sent,
                   passed |-> Min(ParamLimit(sent), LimitCap)]
    /\ UNCHANGED <<store, tip, scan, restarts, manual_calls, faults, ranged,
                   completed, last, workers, reader, parser>>

NextQuery ==
    \/ search_packages_handler
    \/ list_packages_handler
    \/ get_recent_events_handler
    \/ get_package_events_handler

SpecQuery == InitQuery /\ [][NextQuery]_vars

(***************************************************************************)
(* Properties.                                                             *)
(***************************************************************************)
projection == <<packages, versions>>

RowsIn(evs, signature) ==
    {i \in 1..Len(evs) : evs[i].transaction_signature = signature}

RowsOf(signature) == RowsIn(events, signature)

\* A manual call that met no storage error.
CleanManual(step) == step.op = "manual" /\ step.clean

\* C1: a manual ingestion call repeated with the same (log, signature,
\* position), both calls free of storage errors, leaves events, packages and
\* versions as the first call left them, with one event row for the signature.
C1_ManualIdempotent ==
    [][ (/\ CleanManual(last)
         /\ CleanManual(last')
         /\ last'.req = last.req
         /\ manual_calls' = manual_calls + 1)
        => /\ events' = events
           /\ projection' = projection
           /\ IsSome(last'.event) =>
                Cardinality(RowsIn(events', last'.event.transaction_signature)) = 1 ]_vars

\* The scan loop is about to handle, after a restart, with the manual endpoint
\* never called and no failure injected so far, the first parsed line of a transaction that an earlier
\* pass over the same position already stored.
Reprocessing ==
    /\ pc = "logs"
    /\ restarts > 0
    /\ manual_calls = 0
    /\ faults = 0
    /\ \A l \in 1..(logi - 1) : ~IsSome(ParsedAt(slot, txi, l))
    /\ \E i \in RowsOf(Block(slot)[txi].signature) : events[i].slot = slot

\* C2: when the scan loop handles again a transaction whose signature already
\* has an event row, packages, versions, download counters and the error
\* diagnostics of indexer_state do not change.
C2_ReprocessNoDoubleCount ==
    [][ (Reprocessing /\ last'.op = "scan" /\ faults' = 0)
        => (projection' = projection /\ indexer_state' = indexer_state) ]_vars

\* The transactions of position p that yield an event.
EventTxs(p) == {t \in 1..Len(Block(p)) : \E pos \in Positions(p) : pos[1] = t}

\* C3: every position a range iteration has finished (its block fetch having
\* answered a block or an error) and that the persisted cursor has reached has
\* an event row for each of its event transactions.
C3_CursorBehindStoredEvents ==
    \A p \in ranged :
        p <= indexer_state.last_processed_slot
        => \A t \in EventTxs(p) : RowsOf(Block(p)[t].signature) # {}

\* C4: the persisted last_processed_slot never decreases.
C4_CursorNonDecreasing ==
    [][ indexer_state'.last_processed_slot >= indexer_state.last_processed_slot ]_vars

\* C5: a process that was stopped right after the loop finished the range
\* ending at P starts again, its start meeting no failure, with cursor P (so
\* the first position it processes is P + 1).
C5_ResumeAfterRangeEnd ==
    [][ (pc = "stopped" /\ pc' = "poll" /\ completed # 0 /\ faults' = faults)
        => last_slot' = completed ]_vars

\* The step that ends a range: the last position failed, or it succeeded and
\* its cursor write met no storage error.
RangeEnds ==
    /\ pc' = "sleep"
    /\ \/ pc = "fetch"
       \/ pc \in {"slot_ok", "slot_skipped"} /\ faults' = faults

\* C6: when the loop finishes a range, the persisted cursor equals the range's
\* tip, also when the last position failed.
C6_CursorPersistedAtRangeEnd ==
    [][ RangeEnds => indexer_state'.last_processed_slot = current_slot ]_vars

UniqueSignatures ==
    \A i, j \in 1..Len(events) :
        events[i].transaction_signature = events[j].transaction_signature => i = j

\* C7: no two event rows share a transaction signature, and no step changes or
\* removes an event row that exists.
C7_UniqueSignature ==
    /\ []UniqueSignatures
    /\ [][ /\ Len(events') >= Len(events)
           /\ \A i \in 1..Len(events) : events'[i] = events[i] ]_vars

\* An insert hit a stored signature, in a store holding rows of the manual
\* endpoint and of the scan loop.
C7_Witness ==
    /\ IsSome(last.event) /\ last.insert_ok /\ last.insert_id = 0
    /\ \E i, j \in 1..Len(events) : events[i].slot = ManualSlot /\ events[j].slot > ManualSlot

\* C8: ingest_event runs only after insert_event created a new row.
C8_IngestOnlyAfterNewRow ==
    last.ingested => (last.insert_ok /\ last.insert_id # 0)

Resolves(name, version) ==
    /\ version # None
    /\ PackageIndex(packages, name) # 0
    /\ VersionIndex(versions, PackageIndex(packages, name), version) # 0

\* The step handles a log line: the scan loop's, or a manual call's.
Handles(op) ==
    \/ op = "scan" /\ pc = "logs"
    \/ op = "manual" /\ manual_calls' = manual_calls + 1

\* C9: handling a Downloaded event whose package or version has no row leaves
\* packages, versions and indexer_state as they were, stores the event row
\* unless its insert failed, and answers Ok.
C9_DownloadBeforePublish ==
    [][ (/\ Handles(last'.op)
         /\ last'.event.event_type = "PackageDownloaded"
         /\ ~Resolves(last'.event.package_name, last'.event.version))
        => /\ projection' = projection
           /\ indexer_state' = indexer_state
           /\ last'.insert_ok => RowsIn(events', last'.event.transaction_signature) # {}
           /\ last'.ingested => last'.ret = "Ok" ]_vars

\* A Downloaded event was ingested and stored as a new row while its package
\* has no row.
C9_Witness ==
    /\ last.event.event_type = "PackageDownloaded"
    /\ last.ingested /\ last.insert_id # 0
    /\ PackageIndex(packages, last.event.package_name) = 0
    /\ RowsOf(last.event.transaction_signature) # {}

\* C10: every step changes a package's total_downloads and the downloads of its
\* versions by the same amount, 0 or 1.
C10_CountersMoveTogether ==
    [][ \A p \in 1..Len(packages) :
          LET dp == packages'[p].total_downloads - packages[p].total_downloads
              dv == SumDownloads(versions', p) - SumDownloads(versions, p)
          IN dp = dv /\ dp \in {0, 1} ]_vars

\* C13: a block fetch answering skipped or not available writes nothing, and
\* the iteration then ends like one of a block without events: no event,
\* package or version row and no error diagnostic is written, the loop moves
\* to the next position or ends the range, and the cursor is persisted when
\* the position is a multiple of 10 or the last of the range.
C13_SkippedIsNoOp ==
    [][ /\ (pc = "fetch" /\ pc' = "slot_skipped") => store' = store
        /\ (pc = "slot_skipped" /\ pc' \notin {"slot_skipped", "stopped"})
           => /\ events' = events
              /\ projection' = projection
              /\ indexer_state'.error_count = indexer_state.error_count
              /\ indexer_state'.last_error = indexer_state.last_error
              /\ IF slot = current_slot
                   THEN pc' = "sleep" /\ last_slot' = current_slot
                   ELSE pc' = "fetch" /\ slot' = slot + 1
              /\ ((slot % PersistEvery = 0 \/ slot = current_slot) /\ faults' = faults)
                 => indexer_state'.last_processed_slot = slot ]_vars

\* A range ended on a skipped position, the cursor persisted at it, with no
\* row and no diagnostic written.
C13_Witness ==
    /\ pc = "sleep"
    /\ completed # 0
    /\ completed \notin ranged
    /\ indexer_state.last_processed_slot = completed
    /\ indexer_state.error_count = 0
    /\ events = << >>

\* C14: a block fetch error at position p, the diagnostic write meeting no
\* storage error, adds one to error_count and sets last_error to the
\* diagnostic of p, writes nothing else, and the loop goes on to p + 1 or,
\* at the tip, ends the range with the in-memory cursor at the tip.
C14_FailureRecordedLoopGoesOn ==
    [][ (pc = "fetch" /\ last'.op = "slot_err" /\ last'.clean)
        => /\ last'.slot = slot
           /\ indexer_state'.error_count = indexer_state.error_count + 1
           /\ indexer_state'.last_error = [kind |-> "slot", slot |-> slot]
           /\ indexer_state'.last_processed_slot = indexer_state.last_processed_slot
           /\ events' = events
           /\ projection' = projection
           /\ IF slot < current_slot
                THEN pc' = "fetch" /\ slot' = slot + 1 /\ current_slot' = current_slot
                ELSE pc' = "sleep" /\ last_slot' = current_slot ]_vars

\* A position before the tip failed, its diagnostic is stored, and the loop is
\* at the next position.
C14_Witness ==
    /\ pc = "fetch"
    /\ last.op = "slot_err" /\ last.clean
    /\ slot = last.slot + 1
    /\ indexer_state.error_count = 1
    /\ indexer_state.last_error = [kind |-> "slot", slot |-> last.slot]

\* The position whose retry is watched: the first after the initial tip.
RetriedSlot == StartTip + 1

\* C15: after the block fetch of position p failed, the loop fetches the block
\* of p again, unless the process is killed first.
C15_FailedPositionRetried ==
    (last.op = "slot_err" /\ last.slot = RetriedSlot)
        ~> ((pc \in {"logs", "slot_ok"} /\ slot = RetriedSlot) \/ pc = "stopped")

\* C16: start_indexer never returns.
C16_NoTerminalState == pc # "exited"

\* C17: a start takes the persisted cursor when it is > 0, else the override
\* or the tip.
C17_StartCursor ==
    [][ (pc = "stopped" /\ pc' = "poll")
        => IF indexer_state.last_processed_slot > 0
             THEN last_slot' = indexer_state.last_processed_slot
             ELSE last_slot' \in {OverrideSlot, tip'} ]_vars

\* C18: a failed tip fetch is followed by the short delay while fewer than
\* max_retries fetches have failed in a row, and by the doubled backoff from
\* then on; only a successful tip fetch takes retry_count back to 0.
C18_BackoffAfterCeiling ==
    [][ (last'.op = "poll_err" /\ faults' > faults)
        => /\ IF last'.streak < max_retries
                THEN last'.delay = ShortDelay
                ELSE /\ last'.delay = error_backoff'
                     /\ error_backoff' = Min(error_backoff * 2, MaxBackoff)
           /\ retry_count # 0 => retry_count' # 0 ]_vars

\* C19: after a Published event is ingested with no storage error, its
\* package has a row.
C19_PublishedCreatesPackage ==
    [][ (/\ Handles(last'.op)
         /\ last'.event.event_type = "PackagePublished"
         /\ last'.ingested
         /\ last'.clean)
        => PackageIndex(packages', last'.event.package_name) # 0 ]_vars

\* C20: a log line of a transaction that parses to an event after an earlier
\* line of the same transaction did, handled with no storage error, changes
\* nothing in the store.
C20_FirstMatchWins ==
    [][ (/\ pc = "logs"
         /\ last'.op = "scan"
         /\ faults' = faults
         /\ \E l \in 1..(logi - 1) : IsSome(ParsedAt(slot, txi, l)))
        => store' = store ]_vars

\* C11: what a get_package_with_versions call answers has the package's
\* total_downloads equal to the downloads of its version.
C11_ReaderSeesCountersTogether ==
    reader.stage = "done" => reader.total_downloads = reader.downloads

\* No statement of a call is in flight.
Quiescent == \A w \in Workers : workers[w].stage = "idle"

\* The Downloaded events the two callers have ingested.
Accepted == workers["scan"].done + workers["manual"].done

\* C12: when the calls made so far have returned, in whatever order their
\* statements ran, total_downloads of the package and downloads of the
\* version each equal the number of Downloaded events ingested.
C12_CountersEqualAccepted ==
    Quiescent
    => LET i == PackageIndex(packages, PkgA) IN
       /\ packages[i].total_downloads = Accepted
       /\ versions[VersionIndex(versions, i, V1)].downloads = Accepted
       /\ Len(events) = Accepted + 1

\* Both callers have ingested all their events.
C12_Witness ==
    /\ Quiescent
    /\ \A w \in Workers : workers[w].done = PerWorker
    /\ packages[PackageIndex(packages, PkgA)].total_downloads = 2 * PerWorker

\* The transactions of the ledger under signature sig at position p.
TxsAt(p, sig) == {t \in 1..Len(Block(p)) : Block(p)[t].signature = sig}

\* C21: the scan loop handles log lines of successful transactions with a
\* line containing the program identifier only, and every event row it wrote
\* is of such a transaction: a failed transaction and a transaction without
\* the identifier leave no event row and change no package, version or counter.
C21_OnlyInvolvedTransactions ==
    /\ pc = "logs" => (~Block(slot)[txi].err
                       /\ \E i \in 1..Len(Block(slot)[txi].logs) :
                             Block(slot)[txi].logs[i].program)
    /\ \A i \in 1..Len(events) :
         events[i].slot # ManualSlot
         => \E t \in TxsAt(events[i].slot, events[i].transaction_signature) :
              /\ ~Block(events[i].slot)[t].err
              /\ \E l \in 1..Len(Block(events[i].slot)[t].logs) :
                    Block(events[i].slot)[t].logs[l].program

\* The scan has finished a block with a failed transaction and a block with a
\* transaction without the identifier, both carrying a Downloaded line of a
\* stored package and version, and the counters count the two Downloaded lines
\* of the kept transactions only.
C21_Witness ==
    /\ {StartTip + 1, StartTip + 2} \subseteq ranged
    /\ manual_calls = 0 /\ restarts = 0 /\ faults = 0
    /\ RowsOf(Sig(StartTip + 1, "c")) = {}
    /\ RowsOf(Sig(StartTip + 2, "b")) = {}
    /\ Len(packages) = 1 /\ packages[1].total_downloads = 2

\* ingest_event logged the failure of a store write: a warning for an event
\* that has a version (without one, the warning is about the missing version).
WriteFailed(step) ==
    step.ingested /\ step.level = "warn" /\ step.event.version # None

\* C22: when a store write of ingest_event (package upsert, version upsert,
\* counter increment) fails, ingest_event answers an error to its caller, and
\* the event row stored before the call is still there.
C22_WriteFailureReported ==
    [][ (Handles(last'.op) /\ WriteFailed(last'))
        => /\ last'.ret = "Err"
           /\ (last'.insert_ok /\ last'.insert_id # 0)
              => events'[last'.insert_id] = last'.event ]_vars

\* C23: a manual call and the scan loop's handling of one log line, given the
\* same store, line, signature, position and failing store calls, leave the
\* same store.
C23_ManualSameAsScan ==
    [][ /\ (last'.op = "manual" /\ manual_calls' = manual_calls + 1 /\ IsSome(last'.event))
           => DB' = ScanIngest(DB, last'.event, last'.req.log, last'.failed).db
        /\ (last'.op = "scan" /\ pc = "logs")
           => DB' = ManualIngest(DB, last'.event, Block(slot)[txi].logs[logi],
                                 last'.failed).db ]_vars

\* The request's line has been parsed.
Parsed == parser.stage \in {"parsed", "answered"}

\* Published, Updated, Downloaded, generic.
Priority(type) ==
    CASE type = "PackagePublished" -> 1
      [] type = "PackageUpdated" -> 2
      [] type = "PackageDownloaded" -> 3
      [] OTHER -> 4

\* The type of the highest-priority marker written in the line.
HighestMarker(markers) ==
    (CHOOSE m \in {markers[i] : i \in 1..Len(markers)} :
        \A i \in 1..Len(markers) : Priority(m.type) <= Priority(markers[i].type)).type

\* C24: a line written with a name and one or more markers, in any order and
\* letter case, parses to an event of the type of its highest-priority marker.
C24_MarkerPriority ==
    (Parsed /\ parser.input.names # << >> /\ parser.input.markers # << >>)
    => /\ IsSome(parser.event)
       /\ parser.event.event_type = HighestMarker(parser.input.markers)

\* An upper-case Update marker written after a Download marker won.
C24_Witness ==
    /\ Parsed
    /\ parser.input.names # << >>
    /\ parser.input.markers = <<Mk("Instruction: download", "PackageDownloaded"),
                                Mk("INSTRUCTION: Update", "PackageUpdated")>>
    /\ parser.event.event_type = "PackageUpdated"

\* JSON-field, key=value, colon.
StrategyRank(form) ==
    CASE form = "json" -> 1 [] form = "kv" -> 2 [] form = "kv_quoted" -> 2 [] OTHER -> 3

KeyRank(key) == CASE key = "package" -> 1 [] key = "name" -> 2 [] OTHER -> 3

\* The name the cascade is said to answer: the one of the earlier strategy,
\* and within one strategy the one of the earlier key.
CascadeWinner(a, b) ==
    IF StrategyRank(a.form) < StrategyRank(b.form) THEN a
    ELSE IF StrategyRank(b.form) < StrategyRank(a.form) THEN b
    ELSE IF KeyRank(a.key) <= KeyRank(b.key) THEN a ELSE b

\* C25: of two names written in one line, the parsed package_name is the one
\* written in the form of the earlier strategy, or under the earlier key when
\* both are in the same form.
C25_CascadeOrder ==
    (Parsed /\ Len(parser.input.names) = 2)
    => parser.event.package_name
         = CascadeWinner(parser.input.names[1], parser.input.names[2]).value

\* C26: parsing a line changes nothing in the store; a line written without
\* any marker parses to None; an event carries the signature and the slot the
\* parser was given.
C26_ParsePureTotal ==
    [][ (parser.stage = "input" /\ parser'.stage = "parsed")
        => /\ store' = store
           /\ parser.input.markers = << >> => parser'.event = NoEvent
           /\ IsSome(parser'.event)
              => /\ parser'.event.transaction_signature
                      = (IF parser.signature = None THEN ManualSig ELSE parser.signature)
                 /\ parser'.event.slot
                      = (IF parser.slot = << >> THEN ManualSlot ELSE parser.slot[1]) ]_vars

\* A line with a name and no marker, sent with a signature and a slot, parsed
\* to None.
C26_Witness ==
    /\ parser.stage = "parsed"
    /\ parser.input.markers = << >>
    /\ parser.input.names # << >>
    /\ parser.signature = "sig-text"
    /\ parser.slot = <<StartTip>>
    /\ parser.event = NoEvent
    /\ events = << >>

\* The line is written with a marker and a name, and without a version in
\* any form (no version field, no '@').
NameOnly(inp, log) ==
    /\ inp.markers # << >>
    /\ inp.names # << >>
    /\ inp.version = NoField
    /\ ~Contains(log, "@")

\* C27: a line with a marker and a name and no version parses to an event
\* with version None, and the answered request has stored it as an event row
\* with a null version.
C27_MissingVersionStored ==
    /\ (Parsed /\ NameOnly(parser.input, parser.log))
       => IsSome(parser.event) /\ parser.event.version = None
    /\ (parser.stage = "answered" /\ NameOnly(parser.input, parser.log))
       => events = <<parser.event>>

\* A JSON name without version was stored as a row with a null version.
C27_Witness ==
    /\ parser.stage = "answered"
    /\ parser.input.names = <<Field("json", "package", "my-pkg")>>
    /\ parser.input.version = NoField
    /\ Len(events) = 1
    /\ events[1].package_name = "my-pkg"
    /\ events[1].version = None

\* C28: a line with one named marker and a (name, version) pair written in
\* JSON-field, key=value (quoted or not) or colon form parses to an event with
\* that name and that version.
C28_PairRoundTrip ==
    (/\ Parsed
     /\ Len(parser.input.markers) = 1
     /\ parser.input.markers[1] \in NamedMarkers
     /\ Len(parser.input.names) = 1
     /\ parser.input.version # NoField)
    => /\ IsSome(parser.event)
       /\ parser.event.package_name = parser.input.names[1].value
       /\ parser.event.version = parser.input.version.value

\* C29: extract_ipfs_hash answers None or a string of at least 46 characters:
\* the value written under a key when it has 46 characters or more, a bare
\* token when it starts with "Qm" and has 46 to 60 characters.
C29_CidLength ==
    parser.extracted
    => LET c == parser.input.cid
           accepted == IF c.form \in {"kv", "colon"} THEN Len(c.value) >= MinCidLen
                       ELSE /\ c.form = "token"
                            /\ StartsWith(c.value, "Qm")
                            /\ Len(c.value) >= MinCidLen
                            /\ Len(c.value) <= MaxCidLen
       IN /\ parser.cid.found => Len(parser.cid.value) >= MinCidLen
          /\ parser.cid = (IF accepted THEN Found(c.value) ELSE NotFound)

\* C30: the limit a list endpoint passes to its store query never exceeds the
\* server's bound, whatever limit the client sent.
C30_LimitBounded ==
    query.endpoint # "none" => query.passed <= LimitCap

(***************************************************************************)
(* Version rows, range order, backoff, reprocessing, manual answers.       *)
(***************************************************************************)
\* The log line the step from the current state to the next has ingested.
StepLine ==
    IF last'.op = "manual" THEN last'.req.log ELSE Block(slot)[txi].logs[logi]

\* The step ingested a Published or Updated event, without storage error.
Upserting ==
    /\ last'.op \in {"scan", "manual"}
    /\ last'.ingested
    /\ last'.clean
    /\ last'.event.event_type \in {"PackagePublished", "PackageUpdated"}

\* C31: there is at most one versions row per (package_id, version), and a
\* Published or Updated event for a version key that has a row replaces the
\* row's content address and leaves its downloads counter as it was.
C31_VersionUpsert ==
    [][/\ \A i, j \in 1..Len(versions') :
            (/\ versions'[i].package_id = versions'[j].package_id
             /\ versions'[i].version = versions'[j].version) => i = j
       /\ (/\ Upserting
           /\ last'.event.version # None
           /\ StepLine.ipfs # None)
          => LET p == PackageIndex(packages, last'.event.package_name)
                 old == VersionIndex(versions, p, last'.event.version)
             IN old # 0 =>
                  /\ Len(versions') = Len(versions)
                  /\ versions'[old].ipfs_hash = StepLine.ipfs
                  /\ versions'[old].downloads = versions[old].downloads]_vars

\* An Updated event has replaced the content address of pkg-a@1.0.0 after a
\* download was counted for it.
C31_Witness ==
    /\ last.op = "scan"
    /\ last.event.event_type = "PackageUpdated"
    /\ Len(versions) = 1
    /\ versions[1].ipfs_hash = CidB
    /\ versions[1].downloads = 1

\* The step starts a position: process_slot is called for slot'.
Starts == pc' = "fetch" /\ (pc # "fetch" \/ slot' # slot)

\* The position of the current state has finished in this step.
Finishes == pc \in {"fetch", "slot_ok", "slot_skipped"} /\ pc' \in {"fetch", "sleep"}

\* C32: within a run a range starts at cursor + 1 when the tip is above the
\* cursor and at the end of the previous range + 1 when there was one; every
\* other position starts when the position before it has finished; the range
\* ends after the position of the tip; a tip not above the cursor starts
\* nothing.
C32_SequentialRange ==
    [][/\ (Starts /\ pc = "poll")
          => /\ tip' > last_slot
             /\ slot' = last_slot + 1
             /\ current_slot' = tip'
             /\ completed # 0 => slot' = completed + 1
       /\ (Starts /\ pc # "poll")
          => /\ Finishes
             /\ slot' = slot + 1
             /\ slot' <= current_slot
       /\ (Finishes /\ pc' = "sleep")
          => /\ slot = current_slot
             /\ last_slot' = current_slot
       /\ (pc = "poll" /\ tip' <= last_slot) => ~Starts
       /\ (pc = "logs" /\ pc' # "stopped") => slot' = slot /\ pc' \in {"logs", "slot_ok"}]_vars

\* In a run that was never killed, the range that ended at 10 is followed by a
\* range that starts at 11.
C32_Witness ==
    /\ restarts = 0
    /\ pc = "fetch"
    /\ last_slot = StartTip + 1
    /\ slot = StartTip + 2
    /\ StartTip + 1 \in ranged

\* C33: the first backoff sleep after a successful tip fetch lasts the base
\* delay, each following one of the outage twice the one before, and none
\* lasts longer than the cap.
C33_BackoffFromBase ==
    [][(/\ last'.op = "poll_err"
        /\ faults' > faults
        /\ retry_count + 1 >= max_retries)
       => /\ last'.delay <= MaxBackoff
          /\ IF last'.streak = max_retries
               THEN last'.delay = BaseBackoff
               ELSE last'.delay = Min(2 * error_backoff, MaxBackoff)]_vars

(***************************************************************************)
(* One long range of the scan loop: the run has resumed from the persisted *)
(* cursor StartTip and its tip fetch has answered StartTip + RangeLen      *)
(* (listener.rs:186-200); the range loop runs under failed block fetches   *)
(* and failed store writes, on a ledger that skipped no position.          *)
(***************************************************************************)
\* The positions of the range.
RangeLen == 12

InitRange ==
    /\ events = << >>
    /\ packages = << >>
    /\ versions = << >>
    /\ indexer_state = [last_processed_slot |-> StartTip, status |-> "running",
                        error_count |-> 0, last_error |-> None]
    /\ tip = StartTip + RangeLen
    /\ pc = "fetch"
    /\ last_slot = StartTip
    /\ current_slot = StartTip + RangeLen
    /\ slot = StartTip + 1
    /\ txi = 0
    /\ logi = 0
    /\ retry_count = 0
    /\ error_backoff = BaseBackoff
    /\ restarts = 0
    /\ manual_calls = 0
    /\ faults = 0
    /\ ranged = {}
    /\ completed = 0
    /\ last = NoStep
    /\ workers = [w \in Workers |-> IdleWorker]
    /\ reader = IdleReader
    /\ parser = IdleParser
    /\ query = NoQuery

\* The ledger has a block at every position of this range: no fetch answers
\* "skipped".
NextRange ==
    \/ FetchBlock /\ pc' # "slot_skipped"
    \/ ProcessLog
    \/ FinishSlot

SpecRange == InitRange /\ [][NextRange]_vars

\* The positions this run has processed and a run started now would process
\* again: those finished above the persisted cursor, and the one whose
\* process_slot has answered while its cursor write is still to come.
Unpersisted ==
    Cardinality({p \in ranged : p > indexer_state.last_processed_slot})
    + (IF pc = "slot_ok" /\ slot \notin ranged THEN 1 ELSE 0)

\* C34: at every point of a range at most PersistEvery positions processed in
\* this run lie above the persisted cursor.
C34_BoundedReprocessing == Unpersisted <= PersistEvery

\* The step ingested a Published or Updated event that carries a version and
\* a content address.
UpsertsVersion ==
    /\ last'.op \in {"scan", "manual"}
    /\ last'.ingested
    /\ last'.event.event_type \in {"PackagePublished", "PackageUpdated"}
    /\ last'.event.version # None
    /\ StepLine.ipfs # None

\* The versions rows without their downloads counters.
Addresses(vs) ==
    [i \in 1..Len(vs) |-> [package_id |-> vs[i].package_id, version |-> vs[i].version,
                            ipfs_hash |-> vs[i].ipfs_hash]]

\* After a step that stored the event's address without storage error, the
\* row of (package, version) holds the address of the line.
HoldsAddress ==
    (UpsertsVersion /\ last'.clean)
    => LET p == PackageIndex(packages', last'.event.package_name)
           v == VersionIndex(versions', p, last'.event.version)
       IN p # 0 /\ v # 0 /\ versions'[v].ipfs_hash = StepLine.ipfs

OrderRequests ==
    {Request(l, sig, None) :
        l \in {PublishLine(n, v, c) : n \in {PkgA, PkgB}, v \in {V1, None},
                                      c \in {CidA, CidB, None}}
              \cup {UpdateLine(n, v, c) : n \in {PkgA, PkgB}, v \in {V1, None},
                                         c \in {CidA, CidB, None}},
        sig \in {None, "sig-order"}}

\* The second delivery carries what the first carried, as the other event.
Deliver ==
    \E req \in OrderRequests :
        /\ manual_calls > 0
           => /\ req.log.markers # last.req.log.markers
              /\ req.log.name = last.req.log.name
              /\ req.log.version = last.req.log.version
              /\ req.log.ipfs = last.req.log.ipfs
        /\ ingest_log_handler(req, {})

SpecOrder == Init /\ [][Deliver]_vars

\* The package and version rows after Published, then Updated, are ingested
\* for (n, v, c) by an empty store.
PublishedThenUpdated(n, v, c) ==
    LET d0 == [events |-> << >>, packages |-> << >>, versions |-> << >>,
               state |-> indexer_state]
        pub == PublishLine(n, v, c)
        upd == UpdateLine(n, v, c)
        d1 == ManualIngest(d0, parse_transaction(pub, "sig-pub", ManualSlot), pub, {}).db
        d2 == ManualIngest(d1, parse_transaction(upd, "sig-upd", ManualSlot), upd, {}).db
    IN <<d2.packages, d2.versions>>

Holds(es, event) ==
    \E i \in 1..Len(es) :
        /\ es[i].transaction_signature = event.transaction_signature
        /\ es[i].event_type = event.event_type
        /\ es[i].package_name = event.package_name
        /\ es[i].version = event.version

\* C37: after a manual call that answered a parsed event with "Event parsed
\* and ingested", the event store holds a row under the call's signature with
\* the event type, package name and version of the answered event.  Stated
\* for the calls whose insert_event answered without a storage error.
C37_AnswerMatchesRow ==
    (last.op = "manual" /\ IsSome(last.event) /\ last.insert_ok)
        => Holds(events, last.event)

(***************************************************************************)
(* The scan loop and a manual call on the same transactions                *)
(* (listener.rs:334-366, handlers.rs:166-182), statement by statement       *)
(***************************************************************************)
\* The i-th transaction both callers process: a Downloaded line of pkg-a@1.0.0
\* under one signature, the manual call naming the transaction's slot.
SameEvent(i) ==
    parse_transaction(DownloadLine(PkgA, V1), "same-" \o ToString(i), StartTip)

\* insert_event and the two lookups of the Downloaded arm.  The scan goes on
\* to ingest_event on every Ok of insert_event, Ok(0) of a conflict included
\* (listener.rs:344); the handler goes on whatever insert_event answered
\* (handlers.rs:168-182).
ResolveSame(w) ==
    LET event == SameEvent(workers[w].done + 1)
        ins == insert_event(DB, event, FALSE)
        g == get_package_id(ins.db, event.package_name, FALSE)
        v == IF g.id = 0 THEN [ok |-> TRUE, id |-> 0]
             ELSE get_version_id(ins.db, g.id, event.version, FALSE)
    IN /\ workers[w].stage = "idle"
       /\ workers[w].done < PerWorker
       /\ SetDB(ins.db)
       /\ workers' = [workers EXCEPT ![w] =
                        IF v.id = 0
                          THEN [@ EXCEPT !.done = @ + 1]
                          ELSE [@ EXCEPT !.stage = "resolved", !.package_id = g.id,
                                         !.version_id = v.id]]
       /\ UNCHANGED <<tip, scan, restarts, manual_calls, faults, ranged, completed,
                      last, reader, parser, query>>

NextSame ==
    \/ \E w \in Workers : ResolveSame(w)
    \/ \E w \in Workers : FirstUpdate(w)
    \/ \E w \in Workers : SecondUpdate(w)
    \/ ReadPackage
    \/ ReadVersions

SpecSame == InitConc /\ [][NextSame]_vars

\* The rows after the first n transactions were each ingested once.
RECURSIVE IngestedOnce(_)
IngestedOnce(n) ==
    IF n = 0 THEN PublishedStore
    ELSE ManualIngest(IngestedOnce(n - 1), SameEvent(n), DownloadLine(PkgA, V1), {}).db

\* C38: when the scan loop and a manual call have both processed the same
\* transactions, under every interleaving of their statements the store
\* holds one event row for each signature, and the package, version and
\* download counter rows are those after a single ingestion of each.
C38_SameSignatureOnce ==
    (Quiescent /\ \A w \in Workers : workers[w].done = PerWorker)
        => /\ events = IngestedOnce(PerWorker).events
           /\ packages = IngestedOnce(PerWorker).packages
           /\ versions = IngestedOnce(PerWorker).versions

(***************************************************************************)
(* Download counters against the Downloaded event rows                     *)
(***************************************************************************)
\* The Downloaded event rows stored for package row i that name one of its
\* version rows: the rows of the Downloaded events that can have been counted.
DownloadedRows(es, vs, ps, i) ==
    {j \in 1..Len(es) : /\ es[j].event_type = "PackageDownloaded"
                        /\ es[j].package_name = ps[i].name
                        /\ VersionIndex(vs, i, es[j].version) # 0}

\* C39: between ingestions, for every package row total_downloads equals the
\* sum of downloads over its version rows, and the counters count Downloaded
\* event rows stored for the package: they never exceed the number of those
\* rows that name a version of the package.  Stated for the runs without
\* storage errors.
C39_CountersMatchRows ==
    faults = 0 =>
        \A i \in 1..Len(packages) :
            /\ packages[i].total_downloads = SumDownloads(versions, i)
            /\ packages[i].total_downloads
                  <= Cardinality(DownloadedRows(events, versions, packages, i))

(***************************************************************************)
(* The persisted cursor catching up with the tip                           *)
(***************************************************************************)
\* A hypothesis of C40 is broken: the task is not running, or a store call
\* has failed.  Every RPC error counted in faults is recorded by one
\* update_indexer_error, so faults exceeds error_count exactly when a store
\* call failed.
Excused ==
    \/ pc \in {"stopped", "exited"}
    \/ restarts > 0
    \/ faults # indexer_state.error_count

\* C40: once a tip fetch has answered T and the loop has entered the range
\* that ends at T, the persisted last_processed_slot becomes >= T, unless
\* the process is killed or a store call fails.
C40_CatchesUp ==
    \A T \in (StartTip + 1)..MaxSlot :
        (pc = "fetch" /\ current_slot = T /\ ~Excused)
            ~> (indexer_state.last_processed_slot >= T \/ Excused)

====
